---- MODULE Spec2Model ----
(***************************************************************************)
(* Model of the fosite MongoDB storage backend: the generic request store  *)
(* (RequestManager), the authorization-code state layer, the revocation    *)
(* layer and the two JTI deny lists (ClientManager / DeniedJtiManager).    *)
(***************************************************************************)
EXTENDS Integers, Sequences, FiniteSets, TLC

VARIABLES
    db,               \* entityName -> set of BSON documents of that collection
    clients,          \* ids of the documents of the client collection
    now,              \* time.Now().Unix()
    denylist,         \* documents of the jti deny list collection (a bag)
    jtiIndex,         \* TRUE iff DeniedJtiManager.Configure built the unique index
    BlacklistedJTIs,  \* DeniedJtiManager.BlacklistedJTIs (nil or jti -> expiry)
    calls,            \* in-flight Create call of every concurrent caller
    invalidated,      \* codes for which InvalidateAuthorizeCodeSession returned nil
    accepted,         \* <<jti, exp>> for which the persistent SetClientAssertionJWT returned nil
    ret               \* what the last completed call returned

vars == <<db, clients, now, denylist, jtiIndex, BlacklistedJTIs, calls, invalidated, accepted, ret>>

(***************************************************************************)
(* Bounds                                                                  *)
(***************************************************************************)
MaxTime == 3
MaxDocs == 2
MaxDenied == 2

(***************************************************************************)
(* Entities                                                                *)
(***************************************************************************)
EntityOpenIDSessions == "openid_connect_session"
EntityAccessTokens == "access_token"
EntityRefreshTokens == "refresh_token"
EntityAuthorizationCodes == "authorization_code"
EntityPKCESessions == "pkce_session"
EntityJtiDenylist == "jti_deny_list"

\* RequestManager.Configure: the collections that hold storage.Request records
Collections ==
    { EntityAccessTokens, EntityAuthorizationCodes, EntityOpenIDSessions,
      EntityPKCESessions, EntityRefreshTokens }

\* RequestManager.Configure: the keys that carry a unique index in a collection.
\* Access tokens get a hashed signature index, which cannot be unique.
NoUniqueSignature(entityName) ==
    {"id"}

Configure(entityName) ==
    IF entityName = EntityAccessTokens THEN {"id"} ELSE {"id", "signature"}

(***************************************************************************)
(* Error values                                                            *)
(***************************************************************************)
Nil == "nil"
ErrNotFound == "ErrNotFound"
ErrResourceExists == "ErrResourceExists"
ErrInvalidatedAuthorizeCode == "ErrInvalidatedAuthorizeCode"
ErrJTIKnown == "ErrJTIKnown"
ErrDeserialization == "ErrDeserialization"
EngineError == "EngineError"
DuplicateKey == "DuplicateKey"
Panic == "panic"

(***************************************************************************)
(* Sessions and their JSON encoding                                        *)
(***************************************************************************)
NilSession == [shape |-> "nil", subject |-> ""]

\* json.Marshal of a session: the field values, not the Go type
Marshal(session) ==
    IF session = NilSession THEN <<"null">> ELSE <<session.shape, session.subject>>

\* json.Unmarshal(bytes, template): err and the template as filled in place
Unmarshal(bytes, template) ==
    IF bytes = <<"null">>
    THEN [err |-> Nil, session |-> template]
    ELSE IF Len(bytes) = 2 /\ bytes[1] = template.shape
         THEN [err |-> Nil, session |-> [shape |-> template.shape, subject |-> bytes[2]]]
         ELSE [err |-> ErrDeserialization, session |-> template]

(***************************************************************************)
(* storage.Request and its BSON document                                   *)
(***************************************************************************)
\* ToBSON with the two scope lists stored under each other's key
ToBSONSwapped(request) ==
    [ id |-> request.ID,
      created_at |-> request.CreateTime,
      updated_at |-> request.UpdateTime,
      requested_at |-> request.RequestedAt,
      signature |-> request.Signature,
      client_id |-> request.ClientID,
      user_id |-> request.UserID,
      scopes |-> request.GrantedScope,
      granted_scopes |-> request.RequestedScope,
      requested_audience |-> request.RequestedAudience,
      granted_audience |-> request.GrantedAudience,
      active |-> request.Active,
      session_data |-> request.Session ]

\* bson struct tags of storage.Request
ToBSON(request) ==
    [ id |-> request.ID,
      created_at |-> request.CreateTime,
      updated_at |-> request.UpdateTime,
      requested_at |-> request.RequestedAt,
      signature |-> request.Signature,
      client_id |-> request.ClientID,
      user_id |-> request.UserID,
      scopes |-> request.RequestedScope,
      granted_scopes |-> request.GrantedScope,
      requested_audience |-> request.RequestedAudience,
      granted_audience |-> request.GrantedAudience,
      active |-> request.Active,
      session_data |-> request.Session ]

FromBSON(doc) ==
    [ ID |-> doc.id,
      CreateTime |-> doc.created_at,
      UpdateTime |-> doc.updated_at,
      RequestedAt |-> doc.requested_at,
      Signature |-> doc.signature,
      ClientID |-> doc.client_id,
      UserID |-> doc.user_id,
      RequestedScope |-> doc.scopes,
      GrantedScope |-> doc.granted_scopes,
      RequestedAudience |-> doc.requested_audience,
      GrantedAudience |-> doc.granted_audience,
      Active |-> doc.active,
      Session |-> doc.session_data ]

\* toMongo with the record stored as not active
toMongoInactive(signature, r) ==
    [ ID |-> r.ID,
      CreateTime |-> 0,
      UpdateTime |-> 0,
      RequestedAt |-> r.RequestedAt,
      Signature |-> signature,
      ClientID |-> r.ClientID,
      UserID |-> r.Session.subject,
      RequestedScope |-> r.RequestedScope,
      GrantedScope |-> r.GrantedScope,
      RequestedAudience |-> r.RequestedAudience,
      GrantedAudience |-> r.GrantedAudience,
      Active |-> FALSE,
      Session |-> Marshal(r.Session) ]

\* toMongo: flatten a fosite.Requester into a storage.Request
toMongo(signature, r) ==
    [ ID |-> r.ID,
      CreateTime |-> 0,
      UpdateTime |-> 0,
      RequestedAt |-> r.RequestedAt,
      Signature |-> signature,
      ClientID |-> r.ClientID,
      UserID |-> r.Session.subject,
      RequestedScope |-> r.RequestedScope,
      GrantedScope |-> r.GrantedScope,
      RequestedAudience |-> r.RequestedAudience,
      GrantedAudience |-> r.GrantedAudience,
      Active |-> TRUE,
      Session |-> Marshal(r.Session) ]

(***************************************************************************)
(* The persistence engine                                                  *)
(***************************************************************************)
\* documents selected by the query {key: value}
Find(docs, key, value) ==
    { d \in docs : key \in DOMAIN d /\ d[key] = value }

\* an engine whose indexes reject nothing
NeverDuplicateKeyError(docs, unique, doc) ==
    FALSE

\* a unique index rejects doc when another document has the same key value
IsDuplicateKeyError(docs, unique, doc) ==
    \E d \in docs : \E k \in unique : d[k] = doc[k]

\* collection.InsertOne
InsertOne(docs, unique, doc, fail) ==
    IF fail THEN [err |-> EngineError, docs |-> docs]
    ELSE IF IsDuplicateKeyError(docs, unique, doc)
         THEN [err |-> DuplicateKey, docs |-> docs]
         ELSE [err |-> Nil, docs |-> docs \cup {doc}]

\* ReplaceOne that inserts the document when the selector matches none
ReplaceOneUpsert(docs, unique, old, doc, fail) ==
    IF fail THEN [err |-> EngineError, MatchedCount |-> 0, docs |-> docs]
    ELSE IF old = <<>>
         THEN [err |-> Nil, MatchedCount |-> 0, docs |-> docs \cup {doc}]
         ELSE IF IsDuplicateKeyError(docs \ {old[1]}, unique, doc)
              THEN [err |-> DuplicateKey, MatchedCount |-> 0, docs |-> docs]
              ELSE [err |-> Nil, MatchedCount |-> 1,
                    docs |-> (docs \ {old[1]}) \cup {doc}]

\* collection.ReplaceOne (no upsert); old is the matched document, if any
ReplaceOne(docs, unique, old, doc, fail) ==
    IF fail THEN [err |-> EngineError, MatchedCount |-> 0, docs |-> docs]
    ELSE IF old = <<>>
         THEN [err |-> Nil, MatchedCount |-> 0, docs |-> docs]
         ELSE IF IsDuplicateKeyError(docs \ {old[1]}, unique, doc)
              THEN [err |-> DuplicateKey, MatchedCount |-> 0, docs |-> docs]
              ELSE [err |-> Nil, MatchedCount |-> 1,
                    docs |-> (docs \ {old[1]}) \cup {doc}]

\* collection.DeleteOne; old is the matched document, if any
DeleteOne(docs, old, fail) ==
    IF fail THEN [err |-> EngineError, DeletedCount |-> 0, docs |-> docs]
    ELSE IF old = <<>>
         THEN [err |-> Nil, DeletedCount |-> 0, docs |-> docs]
         ELSE [err |-> Nil, DeletedCount |-> 1, docs |-> docs \ {old[1]}]

\* the documents a single-document operation may pick for the query
Picks(docs, key, value) ==
    IF Find(docs, key, value) = {} THEN {<<>>}
    ELSE { <<d>> : d \in Find(docs, key, value) }

\* the document an operation picks when the key is unique
PickOne(docs, key, value) ==
    CHOOSE o \in Picks(docs, key, value) : TRUE

TotalDocs == Cardinality(UNION { {<<e, d>> : d \in db[e]} : e \in Collections })

(***************************************************************************)
(* Results                                                                 *)
(***************************************************************************)
Result(op, entity, key, arg, err, val, fail) ==
    [op |-> op, entity |-> entity, key |-> key, arg |-> arg, err |-> err,
     val |-> val, fail |-> fail]

NoResult == Result("none", "", "", <<>>, Nil, <<>>, 0)

JtiUnchanged == UNCHANGED <<denylist, jtiIndex, BlacklistedJTIs, accepted>>

(***************************************************************************)
(* RequestManager: the generic request store.  Every operator computes the *)
(* outcome of one call on the documents docs of the collection: the error  *)
(* returned, the value returned and the documents afterwards.  fail is the *)
(* number of the engine call that fails with a transport error (0: none).  *)
(***************************************************************************)
\* Create, first part: the defaults of id, create time and requested-at, with
\* uuid the value uuid.NewString() returns and t the time
CreateDefaults(request, uuid, t) ==
    [request EXCEPT !.ID = IF @ = "" THEN uuid ELSE @,
                    !.CreateTime = IF @ = 0 THEN t ELSE @,
                    !.RequestedAt = IF @ = 0 THEN t ELSE @]

\* Create, second part: InsertOne and the translation of its error
CreateInsert(docs, entityName, req, fail) ==
    LET ins == InsertOne(docs, Configure(entityName), ToBSON(req), fail = 1)
    IN  IF ins.err = DuplicateKey
        THEN [err |-> ErrResourceExists, val |-> <<>>, docs |-> ins.docs]
        ELSE IF ins.err # Nil
             THEN [err |-> ins.err, val |-> <<>>, docs |-> ins.docs]
             ELSE [err |-> Nil, val |-> <<req>>, docs |-> ins.docs]

Create(docs, entityName, request, uuid, t, fail) ==
    CreateInsert(docs, entityName, CreateDefaults(request, uuid, t), fail)

\* getConcrete / Get: FindOne by id; pick is the document the engine returns
getConcrete(pick, fail) ==
    IF fail = 1 THEN [err |-> EngineError, val |-> <<>>]
    ELSE IF pick = <<>> THEN [err |-> ErrNotFound, val |-> <<>>]
         ELSE [err |-> Nil, val |-> <<FromBSON(pick[1])>>]

\* GetBySignature: FindOne by signature
GetBySignature(pick, fail) ==
    IF fail = 1 THEN [err |-> EngineError, val |-> <<>>]
    ELSE IF pick = <<>> THEN [err |-> ErrNotFound, val |-> <<>>]
         ELSE [err |-> Nil, val |-> <<FromBSON(pick[1])>>]

\* Update that stores the id of the record it is given
UpdateKeepsID(docs, entityName, requestID, updatedRequest, old, t, fail) ==
    LET upd == [updatedRequest EXCEPT !.UpdateTime = t]
        rep == ReplaceOne(docs, Configure(entityName), old, ToBSON(upd), fail = 1)
    IN  IF rep.err = DuplicateKey
        THEN [err |-> ErrResourceExists, val |-> <<>>, docs |-> rep.docs]
        ELSE IF rep.err # Nil
             THEN [err |-> rep.err, val |-> <<>>, docs |-> rep.docs]
             ELSE IF rep.MatchedCount = 0
                  THEN [err |-> ErrNotFound, val |-> <<>>, docs |-> rep.docs]
                  ELSE [err |-> Nil, val |-> <<upd>>, docs |-> rep.docs]

\* Update: ReplaceOne selected by id; old is the document the selector matched
Update(docs, entityName, requestID, updatedRequest, old, t, fail) ==
    LET upd == [updatedRequest EXCEPT !.ID = requestID, !.UpdateTime = t]
        rep == ReplaceOne(docs, Configure(entityName), old, ToBSON(upd), fail = 1)
    IN  IF rep.err = DuplicateKey
        THEN [err |-> ErrResourceExists, val |-> <<>>, docs |-> rep.docs]
        ELSE IF rep.err # Nil
             THEN [err |-> rep.err, val |-> <<>>, docs |-> rep.docs]
             ELSE IF rep.MatchedCount = 0
                  THEN [err |-> ErrNotFound, val |-> <<>>, docs |-> rep.docs]
                  ELSE [err |-> Nil, val |-> <<upd>>, docs |-> rep.docs]

\* Delete that empties the collection when it removes a document
DeleteDropsAll(docs, old, fail) ==
    LET del == DeleteOne(docs, old, fail = 1)
    IN  IF del.err # Nil THEN [err |-> del.err, docs |-> del.docs]
        ELSE IF del.DeletedCount = 0 THEN [err |-> ErrNotFound, docs |-> del.docs]
             ELSE [err |-> Nil, docs |-> {}]

\* Delete / DeleteBySignature: DeleteOne; old is the document the query matched
Delete(docs, old, fail) ==
    LET del == DeleteOne(docs, old, fail = 1)
    IN  IF del.err # Nil THEN [err |-> del.err, docs |-> del.docs]
        ELSE IF del.DeletedCount = 0 THEN [err |-> ErrNotFound, docs |-> del.docs]
             ELSE [err |-> Nil, docs |-> del.docs]

\* revokeToken with every error of Delete counted as revoked
RevokeSwallowsAll(docs, old, fail) ==
    [err |-> Nil, docs |-> Delete(docs, old, fail).docs]

revokeToken(docs, old, fail) ==
    LET del == Delete(docs, old, fail)
    IN  IF del.err # Nil /\ del.err # ErrNotFound
        THEN [err |-> del.err, docs |-> del.docs]
        ELSE [err |-> Nil, docs |-> del.docs]

(***************************************************************************)
(* Session hydration                                                       *)
(***************************************************************************)
\* GetClient that returns a client for every id
GetClientAlways(cs, clientID, fail) ==
    IF fail THEN [err |-> EngineError, val |-> <<>>]
    ELSE [err |-> Nil, val |-> <<clientID>>]

\* ClientManager.GetClient: getConcrete on the client collection
GetClient(cs, clientID, fail) ==
    IF fail THEN [err |-> EngineError, val |-> <<>>]
    ELSE IF clientID \notin cs THEN [err |-> ErrNotFound, val |-> <<>>]
         ELSE [err |-> Nil, val |-> <<clientID>>]

\* ToRequest with the client resolved before the session is decoded
ToRequestClientFirst(r, session, cs, fail) ==
    LET dec == IF session # NilSession THEN Unmarshal(r.Session, session)
               ELSE [err |-> Nil, session |-> session]
        cl == GetClient(cs, r.ClientID, fail)
    IN  IF cl.err # Nil THEN [err |-> cl.err, val |-> <<>>]
        ELSE IF dec.err # Nil THEN [err |-> dec.err, val |-> <<>>]
             ELSE [err |-> Nil,
                   val |-> << [ Client |-> cl.val[1],
                                Session |-> dec.session,
                                ID |-> r.ID,
                                RequestedAt |-> r.RequestedAt,
                                RequestedScope |-> r.RequestedScope,
                                GrantedScope |-> r.GrantedScope,
                                RequestedAudience |-> r.RequestedAudience,
                                GrantedAudience |-> r.GrantedAudience ] >>]

\* Request.ToRequest: decode the session into the template, resolve the client
ToRequest(r, session, cs, fail) ==
    LET dec == IF session # NilSession THEN Unmarshal(r.Session, session)
               ELSE [err |-> Nil, session |-> session]
        cl == GetClient(cs, r.ClientID, fail)
    IN  IF dec.err # Nil THEN [err |-> dec.err, val |-> <<>>]
        ELSE IF cl.err # Nil THEN [err |-> cl.err, val |-> <<>>]
             ELSE [err |-> Nil,
                   val |-> << [ Client |-> cl.val[1],
                                Session |-> dec.session,
                                ID |-> r.ID,
                                RequestedAt |-> r.RequestedAt,
                                RequestedScope |-> r.RequestedScope,
                                GrantedScope |-> r.GrantedScope,
                                RequestedAudience |-> r.RequestedAudience,
                                GrantedAudience |-> r.GrantedAudience ] >>]

(***************************************************************************)
(* The authorization-code layer                                            *)
(***************************************************************************)
\* CreateAuthorizeCodeSession: Create(toMongo(code, request))
CreateAuthorizeCodeSession(docs, code, request, uuid, t, fail) ==
    IF request.Session = NilSession
    THEN [err |-> Panic, val |-> <<>>, docs |-> docs]
    ELSE Create(docs, EntityAuthorizationCodes, toMongo(code, request), uuid, t, fail)

\* GetAuthorizeCodeSession with the test of Active left out
ActiveIgnored(pick, session, cs, fail) ==
    LET got == GetBySignature(pick, fail)
        hyd == ToRequest(got.val[1], session, cs, fail = 2)
    IN  IF got.err # Nil THEN [err |-> got.err, val |-> <<>>]
        ELSE IF hyd.err # Nil THEN [err |-> hyd.err, val |-> <<>>]
             ELSE [err |-> Nil, val |-> hyd.val]

\* GetAuthorizeCodeSession: fetch by signature, hydrate, then look at Active
GetAuthorizeCodeSession(pick, session, cs, fail) ==
    LET got == GetBySignature(pick, fail)
        hyd == ToRequest(got.val[1], session, cs, fail = 2)
    IN  IF got.err # Nil THEN [err |-> got.err, val |-> <<>>]
        ELSE IF hyd.err # Nil THEN [err |-> hyd.err, val |-> <<>>]
             ELSE IF ~got.val[1].Active
                  THEN [err |-> ErrInvalidatedAuthorizeCode, val |-> hyd.val]
                  ELSE [err |-> Nil, val |-> hyd.val]

\* InvalidateAuthorizeCodeSession that refreshes the update time and leaves
\* Active as it is
InvalidateLeavesActive(docs, pick, t, fail) ==
    LET got == GetBySignature(pick, fail)
        req == [got.val[1] EXCEPT !.UpdateTime = t]
        upd == Update(docs, EntityAuthorizationCodes, req.ID, req,
                      PickOne(docs, "id", req.ID), t, IF fail = 2 THEN 1 ELSE 0)
    IN  IF got.err # Nil THEN [err |-> got.err, docs |-> docs]
        ELSE [err |-> upd.err, docs |-> upd.docs]

\* InvalidateAuthorizeCodeSession: fetch by signature, clear Active, Update
InvalidateAuthorizeCodeSession(docs, pick, t, fail) ==
    LET got == GetBySignature(pick, fail)
        req == [got.val[1] EXCEPT !.UpdateTime = t, !.Active = FALSE]
        upd == Update(docs, EntityAuthorizationCodes, req.ID, req,
                      PickOne(docs, "id", req.ID), t, IF fail = 2 THEN 1 ELSE 0)
    IN  IF got.err # Nil THEN [err |-> got.err, docs |-> docs]
        ELSE [err |-> upd.err, docs |-> upd.docs]

(***************************************************************************)
(* The persistent JTI deny list: DeniedJtiManager over its collection, the *)
(* documents list in their natural order                                   *)
(***************************************************************************)
\* storage.SignatureFromJTI: the signature derived from the jti
SignatureFromJTI(jti) == "sha256:" \o jti

\* storage.NewDeniedJTI
NewDeniedJTI(jti, exp) == [signature |-> SignatureFromJTI(jti), exp |-> exp]

\* the positions of the documents with the signature, 0 when there is none
DeniedPicks(list, signature) ==
    IF \E i \in 1..Len(list) : list[i].signature = signature
    THEN { i \in 1..Len(list) : list[i].signature = signature }
    ELSE {0}

Remove(list, i) ==
    [k \in 1..(Len(list) - 1) |-> IF k < i THEN list[k] ELSE list[k + 1]]

\* DeniedJtiManager.Create; indexed says whether Configure built the unique
\* signature index
DeniedCreate(list, indexed, deniedJTI, fail) ==
    IF fail THEN [err |-> EngineError, list |-> list]
    ELSE IF indexed /\ DeniedPicks(list, deniedJTI.signature) # {0}
         THEN [err |-> ErrResourceExists, list |-> list]
         ELSE [err |-> Nil, list |-> Append(list, deniedJTI)]

\* DeniedJtiManager.getConcrete / Get: FindOne by signature
DeniedGet(list, pick, fail) ==
    IF fail THEN [err |-> EngineError, val |-> <<>>]
    ELSE IF pick = 0 THEN [err |-> ErrNotFound, val |-> <<>>]
         ELSE [err |-> Nil, val |-> <<list[pick]>>]

\* DeniedJtiManager.Delete: DeleteOne by the signature of the jti
DeniedDelete(list, pick, fail) ==
    IF fail THEN [err |-> EngineError, list |-> list]
    ELSE IF pick = 0 THEN [err |-> ErrNotFound, list |-> list]
         ELSE [err |-> Nil, list |-> Remove(list, pick)]

\* DeniedJtiManager.DeleteBefore: DeleteMany of the documents whose exp is
\* less than the current time t
DeleteBefore(list, expBefore, t, fail) ==
    LET kept == SelectSeq(list, LAMBDA d : ~(d.exp < t))
    IN  IF fail THEN [err |-> EngineError, list |-> list]
        ELSE IF Len(kept) = Len(list) THEN [err |-> ErrNotFound, list |-> list]
             ELSE [err |-> Nil, list |-> kept]

(***************************************************************************)
(* ClientManager: the persistent replay check                              *)
(***************************************************************************)
\* ClientManager.ClientAssertionJWTValid; pick is what DeniedJTIs.Get(jti) found
ClientAssertionJWTValid(list, pick, t, fail) ==
    LET got == DeniedGet(list, pick, fail = 1)
    IN  IF got.err = ErrNotFound THEN Nil
        ELSE IF got.err # Nil THEN got.err
             ELSE IF got.val[1].exp > t THEN ErrJTIKnown ELSE Nil

\* ClientManager.SetClientAssertionJWT
SetClientAssertionJWT(list, indexed, jti, exp, t, fail) ==
    LET del == DeleteBefore(list, t, t, fail = 1)
        cre == DeniedCreate(del.list, indexed, NewDeniedJTI(jti, exp), fail = 2)
    IN  IF del.err # Nil THEN [err |-> del.err, list |-> del.list]
        ELSE IF cre.err = ErrResourceExists
             THEN [err |-> ErrJTIKnown, list |-> cre.list]
             ELSE [err |-> cre.err, list |-> cre.list]

\* ClientManager.IsJWTUsed: used is true when ClientAssertionJWTValid returned
\* any error, and the error returned is always nil
IsJWTUsed(list, pick, t, fail) ==
    LET err == ClientAssertionJWTValid(list, pick, t, fail)
    IN  IF err # Nil THEN [used |-> TRUE, err |-> Nil]
        ELSE [used |-> FALSE, err |-> Nil]

(***************************************************************************)
(* DeniedJtiManager: the in-memory replay check.  The map is nil until     *)
(* somebody makes it; entries are the pairs <<jti, expiry>>.               *)
(***************************************************************************)
NilMap == [made |-> FALSE, entries |-> {}]
EmptyMap == [made |-> TRUE, entries |-> {}]

\* DeniedJtiManager.ClientAssertionJWTValid
MemClientAssertionJWTValid(m, jti, t) ==
    IF \E en \in m.entries : en[1] = jti /\ en[2] > t THEN ErrJTIKnown ELSE Nil

\* DeniedJtiManager.SetClientAssertionJWT without the sweep of the expired
\* entries
MemSetNoSweep(m, jti, exp, t) ==
    IF \E en \in m.entries : en[1] = jti
    THEN [err |-> ErrJTIKnown, m |-> m]
    ELSE IF ~m.made
         THEN [err |-> Panic, m |-> m]
         ELSE [err |-> Nil, m |-> [m EXCEPT !.entries = @ \cup {<<jti, exp>>}]]

\* DeniedJtiManager.SetClientAssertionJWT
MemSetClientAssertionJWT(m, jti, exp, t) ==
    LET swept == { en \in m.entries : ~(en[2] < t) }
    IN  IF \E en \in swept : en[1] = jti
        THEN [err |-> ErrJTIKnown, m |-> [m EXCEPT !.entries = swept]]
        ELSE IF ~m.made
             THEN [err |-> Panic, m |-> m]
             ELSE [err |-> Nil,
                   m |-> [m EXCEPT !.entries = swept \cup {<<jti, exp>>}]]

(***************************************************************************)
(* Actions: one call of an operation, run to completion                    *)
(***************************************************************************)
DoCreate(entityName, request, uuid, fail) ==
    LET out == Create(db[entityName], entityName, request, uuid, now, fail)
    IN  /\ out.err = Nil => TotalDocs < MaxDocs
        /\ db' = [db EXCEPT ![entityName] = out.docs]
        /\ ret' = Result("Create", entityName, request.Signature, <<request>>,
                         out.err, out.val, fail)
        /\ UNCHANGED <<clients, now, calls, invalidated>>
        /\ JtiUnchanged

DoGet(entityName, requestID, fail) ==
    \E pick \in Picks(db[entityName], "id", requestID) :
        LET out == getConcrete(pick, fail)
        IN  /\ ret' = Result("Get", entityName, requestID, <<>>, out.err, out.val, fail)
            /\ UNCHANGED <<db, clients, now, calls, invalidated>>
            /\ JtiUnchanged

\* GetBySignature that removes the document it returns
DoGetBySignatureConsuming(entityName, signature, fail) ==
    \E pick \in Picks(db[entityName], "signature", signature) :
        LET out == GetBySignature(pick, fail)
        IN  /\ ret' = Result("GetBySignature", entityName, signature, <<>>,
                             out.err, out.val, fail)
            /\ db' = [db EXCEPT ![entityName] = @ \ {pick[i] : i \in 1..Len(pick)}]
            /\ UNCHANGED <<clients, now, calls, invalidated>>
            /\ JtiUnchanged

DoGetBySignature(entityName, signature, fail) ==
    \E pick \in Picks(db[entityName], "signature", signature) :
        LET out == GetBySignature(pick, fail)
        IN  /\ ret' = Result("GetBySignature", entityName, signature, <<>>,
                             out.err, out.val, fail)
            /\ UNCHANGED <<db, clients, now, calls, invalidated>>
            /\ JtiUnchanged

DoUpdate(entityName, requestID, updatedRequest, fail) ==
    \E old \in Picks(db[entityName], "id", requestID) :
        LET out == Update(db[entityName], entityName, requestID, updatedRequest,
                          old, now, fail)
        IN  /\ db' = [db EXCEPT ![entityName] = out.docs]
            /\ ret' = Result("Update", entityName, requestID, <<updatedRequest>>,
                             out.err, out.val, fail)
            /\ UNCHANGED <<clients, now, calls, invalidated>>
            /\ JtiUnchanged

\* Delete that removes the record with the id from every collection
DoDeleteEverywhere(entityName, requestID, fail) ==
    \E old \in Picks(db[entityName], "id", requestID) :
        LET out == Delete(db[entityName], old, fail)
        IN  /\ db' = [e \in DOMAIN db |->
                         IF e = entityName THEN out.docs
                         ELSE IF out.err = Nil
                              THEN db[e] \ Find(db[e], "id", requestID)
                              ELSE db[e]]
            /\ ret' = Result("Delete", entityName, requestID, <<>>, out.err, <<>>, fail)
            /\ UNCHANGED <<clients, now, calls, invalidated>>
            /\ JtiUnchanged

DoDelete(entityName, requestID, fail) ==
    \E old \in Picks(db[entityName], "id", requestID) :
        LET out == Delete(db[entityName], old, fail)
        IN  /\ db' = [db EXCEPT ![entityName] = out.docs]
            /\ ret' = Result("Delete", entityName, requestID, <<>>, out.err, <<>>, fail)
            /\ UNCHANGED <<clients, now, calls, invalidated>>
            /\ JtiUnchanged

DoDeleteBySignature(entityName, signature, fail) ==
    \E old \in Picks(db[entityName], "signature", signature) :
        LET out == Delete(db[entityName], old, fail)
        IN  /\ db' = [db EXCEPT ![entityName] = out.docs]
            /\ ret' = Result("DeleteBySignature", entityName, signature, <<>>,
                             out.err, <<>>, fail)
            /\ UNCHANGED <<clients, now, calls, invalidated>>
            /\ JtiUnchanged

\* the body shared by the three revocation entry points
Revoke(op, entityName, requestID, fail) ==
    \E old \in Picks(db[entityName], "id", requestID) :
        LET out == revokeToken(db[entityName], old, fail)
        IN  /\ db' = [db EXCEPT ![entityName] = out.docs]
            /\ ret' = Result(op, entityName, requestID, <<>>, out.err, <<>>, fail)
            /\ UNCHANGED <<clients, now, calls, invalidated>>
            /\ JtiUnchanged

RevokeRefreshToken(requestID, fail) ==
    Revoke("RevokeRefreshToken", EntityRefreshTokens, requestID, fail)

RevokeAccessToken(requestID, fail) ==
    Revoke("RevokeAccessToken", EntityAccessTokens, requestID, fail)

RevokeRefreshTokenMaybeGracePeriod(requestID, signature, fail) ==
    Revoke("RevokeRefreshTokenMaybeGracePeriod", EntityRefreshTokens, requestID, fail)

DoCreateAuthorizeCodeSession(code, request, uuid, fail) ==
    LET out == CreateAuthorizeCodeSession(db[EntityAuthorizationCodes], code,
                                          request, uuid, now, fail)
    IN  /\ out.err = Nil => TotalDocs < MaxDocs
        /\ db' = [db EXCEPT ![EntityAuthorizationCodes] = out.docs]
        /\ ret' = Result("CreateAuthorizeCodeSession", EntityAuthorizationCodes,
                         code, <<request>>, out.err, out.val, fail)
        /\ UNCHANGED <<clients, now, calls, invalidated>>
        /\ JtiUnchanged

DoGetAuthorizeCodeSession(code, session, fail) ==
    \E pick \in Picks(db[EntityAuthorizationCodes], "signature", code) :
        LET out == GetAuthorizeCodeSession(pick, session, clients, fail)
        IN  /\ ret' = Result("GetAuthorizeCodeSession", EntityAuthorizationCodes,
                             code, <<session>>, out.err, out.val, fail)
            /\ UNCHANGED <<db, clients, now, calls, invalidated>>
            /\ JtiUnchanged

DoInvalidateAuthorizeCodeSession(code, fail) ==
    \E pick \in Picks(db[EntityAuthorizationCodes], "signature", code) :
        LET out == InvalidateAuthorizeCodeSession(db[EntityAuthorizationCodes],
                                                  pick, now, fail)
        IN  /\ db' = [db EXCEPT ![EntityAuthorizationCodes] = out.docs]
            /\ invalidated' = IF out.err = Nil THEN invalidated \cup {code}
                               ELSE invalidated
            /\ ret' = Result("InvalidateAuthorizeCodeSession",
                             EntityAuthorizationCodes, code, <<>>, out.err, <<>>, fail)
            /\ UNCHANGED <<clients, now, calls>>
            /\ JtiUnchanged

\* the Client Store collaborator: ClientManager.Create / ClientManager.Delete
ClientCreate(clientID) ==
    /\ clientID \notin clients
    /\ clients' = clients \cup {clientID}
    /\ ret' = Result("ClientCreate", "client", clientID, <<>>, Nil, <<>>, 0)
    /\ UNCHANGED <<db, now, calls, invalidated>>
    /\ JtiUnchanged

ClientDelete(clientID) ==
    /\ clients' = clients \ {clientID}
    /\ ret' = Result("ClientDelete", "client", clientID, <<>>,
                     IF clientID \in clients THEN Nil ELSE ErrNotFound, <<>>, 0)
    /\ UNCHANGED <<db, now, calls, invalidated>>
    /\ JtiUnchanged

\* the clock advances
Tick ==
    /\ now < MaxTime
    /\ now' = now + 1
    /\ ret' = Result("Tick", "", "", <<>>, Nil, <<>>, 0)
    /\ UNCHANGED <<db, clients, calls, invalidated>>
    /\ JtiUnchanged

StoreUnchanged == UNCHANGED <<db, clients, calls, invalidated>>

StoreUnchangedButCalls == UNCHANGED <<db, clients, invalidated>>

DoDeniedCreate(deniedJTI, fail) ==
    LET out == DeniedCreate(denylist, jtiIndex, deniedJTI, fail = 1)
    IN  /\ out.err = Nil => Len(denylist) < MaxDenied
        /\ denylist' = out.list
        /\ ret' = Result("DeniedJTIs.Create", EntityJtiDenylist, deniedJTI.signature,
                         <<deniedJTI.exp>>, out.err, <<>>, fail)
        /\ UNCHANGED <<now, jtiIndex, BlacklistedJTIs, accepted>>
        /\ StoreUnchanged

DoDeniedGet(signature, fail) ==
    \E pick \in DeniedPicks(denylist, signature) :
        LET out == DeniedGet(denylist, pick, fail = 1)
        IN  /\ ret' = Result("DeniedJTIs.Get", EntityJtiDenylist, signature, <<>>,
                             out.err, out.val, fail)
            /\ UNCHANGED <<now, denylist, jtiIndex, BlacklistedJTIs, accepted>>
            /\ StoreUnchanged

DoDeniedDelete(jti, fail) ==
    \E pick \in DeniedPicks(denylist, SignatureFromJTI(jti)) :
        LET out == DeniedDelete(denylist, pick, fail = 1)
        IN  /\ denylist' = out.list
            /\ ret' = Result("DeniedJTIs.Delete", EntityJtiDenylist, jti, <<>>,
                             out.err, <<>>, fail)
            /\ UNCHANGED <<now, jtiIndex, BlacklistedJTIs, accepted>>
            /\ StoreUnchanged

DoDeleteBefore(expBefore, fail) ==
    LET out == DeleteBefore(denylist, expBefore, now, fail = 1)
    IN  /\ denylist' = out.list
        /\ ret' = Result("DeniedJTIs.DeleteBefore", EntityJtiDenylist, "",
                         <<expBefore>>, out.err, <<>>, fail)
        /\ UNCHANGED <<now, jtiIndex, BlacklistedJTIs, accepted>>
        /\ StoreUnchanged

DoClientAssertionJWTValid(jti, fail) ==
    \E pick \in DeniedPicks(denylist, jti) :
        /\ ret' = Result("ClientManager.ClientAssertionJWTValid", EntityJtiDenylist,
                         jti, <<>>,
                         ClientAssertionJWTValid(denylist, pick, now, fail), <<>>, fail)
        /\ UNCHANGED <<now, denylist, jtiIndex, BlacklistedJTIs, accepted>>
        /\ StoreUnchanged

DoSetClientAssertionJWT(jti, exp, fail) ==
    LET out == SetClientAssertionJWT(denylist, jtiIndex, jti, exp, now, fail)
    IN  /\ out.err = Nil => Len(out.list) <= MaxDenied
        /\ denylist' = out.list
        /\ accepted' = IF out.err = Nil THEN accepted \cup {<<jti, exp>>} ELSE accepted
        /\ ret' = Result("ClientManager.SetClientAssertionJWT", EntityJtiDenylist,
                         jti, <<exp>>, out.err, <<>>, fail)
        /\ UNCHANGED <<now, jtiIndex, BlacklistedJTIs>>
        /\ StoreUnchanged

DoIsJWTUsed(jti, fail) ==
    \E pick \in DeniedPicks(denylist, jti) :
        LET out == IsJWTUsed(denylist, pick, now, fail)
        IN  /\ ret' = Result("ClientManager.IsJWTUsed", EntityJtiDenylist, jti, <<>>,
                             out.err, <<out.used>>, fail)
            /\ UNCHANGED <<now, denylist, jtiIndex, BlacklistedJTIs, accepted>>
            /\ StoreUnchanged

DoMemClientAssertionJWTValid(jti) ==
    /\ ret' = Result("DeniedJtiManager.ClientAssertionJWTValid", "memory", jti, <<>>,
                     MemClientAssertionJWTValid(BlacklistedJTIs, jti, now), <<>>, 0)
    /\ UNCHANGED <<now, denylist, jtiIndex, BlacklistedJTIs, accepted>>
    /\ StoreUnchanged

DoMemSetClientAssertionJWT(jti, exp) ==
    LET out == MemSetClientAssertionJWT(BlacklistedJTIs, jti, exp, now)
    IN  /\ BlacklistedJTIs' = out.m
        /\ ret' = Result("DeniedJtiManager.SetClientAssertionJWT", "memory", jti,
                         <<exp>>, out.err, <<>>, 0)
        /\ UNCHANGED <<now, denylist, jtiIndex, accepted>>
        /\ StoreUnchanged

(***************************************************************************)
(* Concurrent callers of Create: the defaults are computed by the caller,  *)
(* InsertOne is one atomic step of the engine                              *)
(***************************************************************************)
Procs == {1, 2}

IdleCall == [pc |-> "idle", entity |-> "", request |-> <<>>, err |-> Nil]

CreateBegin(p, entityName, request, uuid) ==
    /\ calls[p].pc = "idle"
    /\ calls' = [calls EXCEPT ![p] =
                    [pc |-> "insert", entity |-> entityName,
                     request |-> <<CreateDefaults(request, uuid, now)>>,
                     err |-> Nil]]
    /\ UNCHANGED <<db, clients, now, invalidated, ret>>
    /\ JtiUnchanged

CreateReturn(p) ==
    /\ calls[p].pc = "insert"
    /\ LET e == calls[p].entity
           out == CreateInsert(db[e], e, calls[p].request[1], 0)
       IN  /\ db' = [db EXCEPT ![e] = out.docs]
           /\ calls' = [calls EXCEPT ![p].pc = "done", ![p].err = out.err]
           /\ ret' = Result("Create", e, calls[p].request[1].Signature,
                            calls[p].request, out.err, out.val, 0)
    /\ UNCHANGED <<clients, now, invalidated>>
    /\ JtiUnchanged

(***************************************************************************)
(* Concurrent callers of Update and Delete on one collection: the caller   *)
(* sets the id and the update time of the record, ReplaceOne and DeleteOne *)
(* are each one atomic step of the engine                                  *)
(***************************************************************************)
UpdateBegin(p, entityName, requestID, updatedRequest) ==
    /\ calls[p].pc = "idle"
    /\ calls' = [calls EXCEPT ![p] =
                    [pc |-> "replace", op |-> "Update", entity |-> entityName,
                     id |-> requestID,
                     request |-> <<[updatedRequest EXCEPT !.ID = requestID,
                                                          !.UpdateTime = now]>>,
                     err |-> Nil]]
    /\ UNCHANGED <<db, clients, now, invalidated, ret>>
    /\ JtiUnchanged

\* Update whose ReplaceOne writes the signature only and keeps the other
\* fields of the stored document
UpdateReturnSignatureOnly(p) ==
    /\ calls[p].pc = "replace"
    /\ LET e == calls[p].entity
           upd == calls[p].request[1]
       IN  \E old \in Picks(db[e], "id", calls[p].id) :
             LET kept == IF old = <<>> THEN upd
                         ELSE [FromBSON(old[1]) EXCEPT !.Signature = upd.Signature]
                 out == Update(db[e], e, calls[p].id, kept, old, kept.UpdateTime, 0)
             IN  /\ db' = [db EXCEPT ![e] = out.docs]
                 /\ calls' = [calls EXCEPT ![p].pc = "done", ![p].err = out.err]
                 /\ ret' = Result("Update", e, calls[p].id, calls[p].request,
                                  out.err, out.val, 0)
    /\ UNCHANGED <<clients, now, invalidated>>
    /\ JtiUnchanged

UpdateReturn(p) ==
    /\ calls[p].pc = "replace"
    /\ LET e == calls[p].entity
           upd == calls[p].request[1]
       IN  \E old \in Picks(db[e], "id", calls[p].id) :
             LET out == Update(db[e], e, calls[p].id, upd, old, upd.UpdateTime, 0)
             IN  /\ db' = [db EXCEPT ![e] = out.docs]
                 /\ calls' = [calls EXCEPT ![p].pc = "done", ![p].err = out.err]
                 /\ ret' = Result("Update", e, calls[p].id, calls[p].request,
                                  out.err, out.val, 0)
    /\ UNCHANGED <<clients, now, invalidated>>
    /\ JtiUnchanged

DeleteBegin(p, entityName, requestID) ==
    /\ calls[p].pc = "idle"
    /\ calls' = [calls EXCEPT ![p] =
                    [pc |-> "delete", op |-> "Delete", entity |-> entityName,
                     id |-> requestID, request |-> <<>>, err |-> Nil]]
    /\ UNCHANGED <<db, clients, now, invalidated, ret>>
    /\ JtiUnchanged

DeleteReturn(p) ==
    /\ calls[p].pc = "delete"
    /\ LET e == calls[p].entity
       IN  \E old \in Picks(db[e], "id", calls[p].id) :
             LET out == Delete(db[e], old, 0)
             IN  /\ db' = [db EXCEPT ![e] = out.docs]
                 /\ calls' = [calls EXCEPT ![p].pc = "done", ![p].err = out.err]
                 /\ ret' = Result("Delete", e, calls[p].id, <<>>, out.err, <<>>, 0)
    /\ UNCHANGED <<clients, now, invalidated>>
    /\ JtiUnchanged

(***************************************************************************)
(* Goroutines calling the in-memory replay check: blacklistedJTIsMutex is  *)
(* held by the goroutine that is between Lock and its return, and          *)
(* read-held by those between RLock and their return.  A panic in any      *)
(* goroutine ends the program.                                             *)
(***************************************************************************)
\* blacklistedJTIsMutex is locked for writing
MemLocked == \E q \in Procs : calls[q].pc \in {"sweep", "check", "insert"}

\* blacklistedJTIsMutex is locked for reading
MemRLocked == \E q \in Procs : calls[q].pc = "read"

Aborted == \E q \in Procs : calls[q].err = Panic

\* SetClientAssertionJWT: Lock
MemSetLock(p, jti, exp) ==
    /\ ~Aborted
    /\ calls[p].pc = "idle"
    /\ ~MemLocked /\ ~MemRLocked
    /\ calls' = [calls EXCEPT ![p] =
                    [pc |-> "sweep", op |-> "DeniedJtiManager.SetClientAssertionJWT",
                     entity |-> "memory", id |-> jti, request |-> <<exp>>,
                     err |-> Nil]]
    /\ UNCHANGED <<now, denylist, jtiIndex, BlacklistedJTIs, accepted, ret>>
    /\ StoreUnchangedButCalls

\* SetClientAssertionJWT: the loop that deletes the expired entries
MemSetSweep(p) ==
    /\ ~Aborted
    /\ calls[p].pc = "sweep"
    /\ BlacklistedJTIs' =
          [BlacklistedJTIs EXCEPT !.entries = { en \in @ : ~(en[2] < now) }]
    /\ calls' = [calls EXCEPT ![p].pc = "check"]
    /\ UNCHANGED <<now, denylist, jtiIndex, accepted, ret>>
    /\ StoreUnchangedButCalls

\* SetClientAssertionJWT: the test for an entry of the jti, ErrJTIKnown and
\* the deferred Unlock when there is one
MemSetCheck(p) ==
    /\ ~Aborted
    /\ calls[p].pc = "check"
    /\ IF \E en \in BlacklistedJTIs.entries : en[1] = calls[p].id
       THEN /\ calls' = [calls EXCEPT ![p].pc = "done", ![p].err = ErrJTIKnown]
            /\ ret' = Result(calls[p].op, "memory", calls[p].id, calls[p].request,
                             ErrJTIKnown, <<>>, 0)
       ELSE /\ calls' = [calls EXCEPT ![p].pc = "insert"]
            /\ ret' = ret
    /\ UNCHANGED <<now, denylist, jtiIndex, BlacklistedJTIs, accepted>>
    /\ StoreUnchangedButCalls

\* SetClientAssertionJWT: the assignment to the map entry, which panics on a
\* nil map, and the deferred Unlock
MemSetInsert(p) ==
    /\ ~Aborted
    /\ calls[p].pc = "insert"
    /\ LET err == IF BlacklistedJTIs.made THEN Nil ELSE Panic
       IN  /\ BlacklistedJTIs' =
                 IF BlacklistedJTIs.made
                 THEN [BlacklistedJTIs EXCEPT
                          !.entries = @ \cup {<<calls[p].id, calls[p].request[1]>>}]
                 ELSE BlacklistedJTIs
           /\ calls' = [calls EXCEPT ![p].pc = "done", ![p].err = err]
           /\ ret' = Result(calls[p].op, "memory", calls[p].id, calls[p].request,
                            err, <<>>, 0)
    /\ UNCHANGED <<now, denylist, jtiIndex, accepted>>
    /\ StoreUnchangedButCalls

\* ClientAssertionJWTValid: RLock
MemValidRLock(p, jti) ==
    /\ ~Aborted
    /\ calls[p].pc = "idle"
    /\ ~MemLocked
    /\ calls' = [calls EXCEPT ![p] =
                    [pc |-> "read", op |-> "DeniedJtiManager.ClientAssertionJWTValid",
                     entity |-> "memory", id |-> jti, request |-> <<>>,
                     err |-> Nil]]
    /\ UNCHANGED <<now, denylist, jtiIndex, BlacklistedJTIs, accepted, ret>>
    /\ StoreUnchangedButCalls

\* ClientAssertionJWTValid: the lookup and the deferred RUnlock
MemValidReturn(p) ==
    /\ ~Aborted
    /\ calls[p].pc = "read"
    /\ LET err == MemClientAssertionJWTValid(BlacklistedJTIs, calls[p].id, now)
       IN  /\ calls' = [calls EXCEPT ![p].pc = "done", ![p].err = err]
           /\ ret' = Result(calls[p].op, "memory", calls[p].id, <<>>, err, <<>>, 0)
    /\ UNCHANGED <<now, denylist, jtiIndex, BlacklistedJTIs, accepted>>
    /\ StoreUnchangedButCalls

(***************************************************************************)
(* Inputs                                                                  *)
(***************************************************************************)
IDs == {"i1", "i2"}
Signatures == {"s1", "s2"}
ClientIDs == {"c1"}
ScopeLists == {<<"read", "write">>, <<"write", "read">>}
SessionA == [shape |-> "A", subject |-> "u1"]
TemplateA == [shape |-> "A", subject |-> ""]
TemplateB == [shape |-> "B", subject |-> ""]
Templates == {TemplateA, TemplateB, NilSession}

\* the requesters handed to the Create*Session wrappers
Requesters ==
    { [ ID |-> i, RequestedAt |-> 0, ClientID |-> "c1", Session |-> se,
        RequestedScope |-> <<"read", "write">>, GrantedScope |-> <<"read">>,
        RequestedAudience |-> <<"api1">>, GrantedAudience |-> <<"api1">> ] :
      i \in {"", "i1"}, se \in {SessionA, NilSession} }

\* the records handed to the generic Create and Update of the code collection
CodeRequests ==
    { [toMongo(s, r) EXCEPT !.Active = a] :
      s \in Signatures, a \in BOOLEAN,
      r \in {q \in Requesters : q.Session # NilSession} }

\* the records handed to the generic Create of any collection
StoreRequests ==
    { [ ID |-> i, CreateTime |-> 0, UpdateTime |-> 0, RequestedAt |-> 0,
        Signature |-> s, ClientID |-> "c1", UserID |-> "u1",
        RequestedScope |-> sc, GrantedScope |-> <<"read">>,
        RequestedAudience |-> <<"api1">>, GrantedAudience |-> <<"api1">>,
        Active |-> TRUE, Session |-> Marshal(SessionA) ] :
      i \in {"", "i1"}, s \in Signatures, sc \in ScopeLists }

\* the values uuid.NewString() may return where the call asks for one
UUIDs(id) == IF id = "" THEN IDs ELSE {""}

\* the collections the generic store specification exercises: the one without
\* a unique signature index and one with it
StoreEntities == {EntityAccessTokens, EntityRefreshTokens}

(***************************************************************************)
(* Specifications                                                          *)
(***************************************************************************)
\* New: empty collections, a DeniedJtiManager whose map was never made
Init ==
    /\ db = [e \in Collections |-> {}]
    /\ clients = {}
    /\ now = 1
    /\ denylist = <<>>
    /\ jtiIndex = FALSE
    /\ BlacklistedJTIs = NilMap
    /\ calls = [p \in Procs |-> IdleCall]
    /\ invalidated = {}
    /\ accepted = {}
    /\ ret = NoResult

\* the authorization-code layer over its collection, with the generic store
\* operations on the same collection and the Client Store
NextCode ==
    \/ \E c \in Signatures, r \in Requesters : \E u \in UUIDs(r.ID) :
            DoCreateAuthorizeCodeSession(c, r, u, 0)
    \/ \E c \in Signatures, se \in Templates, f \in 0..2 :
            DoGetAuthorizeCodeSession(c, se, f)
    \/ \E c \in Signatures, f \in 0..2 : DoInvalidateAuthorizeCodeSession(c, f)
    \/ \E r \in CodeRequests : \E u \in UUIDs(r.ID) :
            DoCreate(EntityAuthorizationCodes, r, u, 0)
    \/ \E i \in IDs, r \in {q \in CodeRequests : q.ID = ""} :
            DoUpdate(EntityAuthorizationCodes, i, r, 0)
    \/ \E i \in IDs : DoDelete(EntityAuthorizationCodes, i, 0)
    \/ \E c \in Signatures : DoDeleteBySignature(EntityAuthorizationCodes, c, 0)
    \/ \E c \in ClientIDs : ClientCreate(c)
    \/ \E c \in ClientIDs : ClientDelete(c)

SpecCode == Init /\ [][NextCode]_vars

\* the generic store and the revocation layer
Next ==
    \/ \E e \in StoreEntities, r \in StoreRequests : \E u \in UUIDs(r.ID) :
            DoCreate(e, r, u, 0)
    \/ \E e \in StoreEntities, i \in IDs : DoGet(e, i, 0)
    \/ \E e \in StoreEntities, s \in Signatures : DoGetBySignature(e, s, 0)
    \/ \E e \in StoreEntities, i \in IDs, f \in 0..1 : DoDelete(e, i, f)
    \/ \E e \in StoreEntities, s \in Signatures : DoDeleteBySignature(e, s, 0)
    \/ \E i \in IDs, f \in 0..1 : RevokeRefreshToken(i, f)
    \/ \E i \in IDs, f \in 0..1 : RevokeAccessToken(i, f)
    \/ \E i \in IDs, s \in Signatures, f \in 0..1 :
            RevokeRefreshTokenMaybeGracePeriod(i, s, f)

Spec == Init /\ [][Next]_vars

\* two callers, each running one Create, on any of the five collections
RaceRequests ==
    { [ ID |-> i, CreateTime |-> 0, UpdateTime |-> 0, RequestedAt |-> 0,
        Signature |-> s, ClientID |-> "c1", UserID |-> "u1",
        RequestedScope |-> <<"read", "write">>, GrantedScope |-> <<"read">>,
        RequestedAudience |-> <<"api1">>, GrantedAudience |-> <<"api1">>,
        Active |-> TRUE, Session |-> Marshal(SessionA) ] :
      i \in IDs, s \in Signatures }

NextRace ==
    \/ \E p \in Procs, e \in Collections, r \in RaceRequests :
            CreateBegin(p, e, r, "")
    \/ \E p \in Procs : CreateReturn(p)

SpecRace == Init /\ [][NextRace]_vars

JTIs == {"abc", "xyz"}
Expiries == 1..MaxTime

\* the in-memory replay check; the map is nil after New and made when the
\* owner of the manager assigned one to the exported field
InitMem ==
    /\ db = [e \in Collections |-> {}]
    /\ clients = {}
    /\ now = 1
    /\ denylist = <<>>
    /\ jtiIndex = FALSE
    /\ BlacklistedJTIs \in {NilMap, EmptyMap}
    /\ calls = [p \in Procs |-> IdleCall]
    /\ invalidated = {}
    /\ accepted = {}
    /\ ret = NoResult

NextMem ==
    \/ \E j \in JTIs, x \in Expiries : DoMemSetClientAssertionJWT(j, x)
    \/ \E j \in JTIs : DoMemClientAssertionJWTValid(j)
    \/ Tick

SpecMem == InitMem /\ [][NextMem]_vars

\* the persistent replay check, with or without the unique signature index
InitJti ==
    /\ db = [e \in Collections |-> {}]
    /\ clients = {}
    /\ now = 1
    /\ denylist = <<>>
    /\ jtiIndex \in BOOLEAN
    /\ BlacklistedJTIs = NilMap
    /\ calls = [p \in Procs |-> IdleCall]
    /\ invalidated = {}
    /\ accepted = {}
    /\ ret = NoResult

NextJti ==
    \/ \E j \in JTIs, x \in Expiries, f \in 0..2 : DoSetClientAssertionJWT(j, x, f)
    \/ \E j \in JTIs, f \in 0..1 : DoClientAssertionJWTValid(j, f)
    \/ \E j \in JTIs, x \in Expiries : DoDeniedCreate(NewDeniedJTI(j, x), 0)
    \/ \E j \in JTIs : DoDeniedGet(SignatureFromJTI(j), 0)
    \/ \E j \in JTIs : DoDeniedDelete(j, 0)
    \/ \E x \in Expiries : DoDeleteBefore(x, 0)
    \/ Tick

SpecJti == InitJti /\ [][NextJti]_vars

(***************************************************************************)
(* RequestManager.List: the query built from the filter and the documents  *)
(* the engine finds for it                                                 *)
(***************************************************************************)
Range(seq) == { seq[i] : i \in 1..Len(seq) }

\* query[key] = cond, replacing what the query had under the key
Assign(query, key, cond) ==
    [k \in (DOMAIN query) \cup {key} |-> IF k = key THEN cond ELSE query[k]]

\* the value of a field satisfies a condition of the query
Holds(value, cond) ==
    CASE cond.op = "$eq" -> value = cond.v
      [] cond.op = "$all" -> Range(cond.v) \subseteq Range(value)
      [] cond.op = "$in" -> Range(cond.v) \cap Range(value) # {}

\* collection.Find: a document matches when it has every field of the query
\* and the field satisfies the condition
Matches(doc, query) ==
    \A k \in DOMAIN query : k \in DOMAIN doc /\ Holds(doc[k], query[k])

\* List, the query with the intersection filters assigned after the unions
ListQueryIntersectionLast(filter) ==
    LET q1 == IF filter.ClientID # ""
              THEN Assign(<<>>, "clientId", [op |-> "$eq", v |-> filter.ClientID])
              ELSE <<>>
        q2 == IF filter.UserID # ""
              THEN Assign(q1, "userId", [op |-> "$eq", v |-> filter.UserID])
              ELSE q1
        q3 == IF Len(filter.ScopesUnion) > 0
              THEN Assign(q2, "scopes", [op |-> "$in", v |-> filter.ScopesUnion])
              ELSE q2
        q4 == IF Len(filter.ScopesIntersection) > 0
              THEN Assign(q3, "scopes", [op |-> "$all", v |-> filter.ScopesIntersection])
              ELSE q3
        q5 == IF Len(filter.GrantedScopesUnion) > 0
              THEN Assign(q4, "scopes", [op |-> "$in", v |-> filter.GrantedScopesUnion])
              ELSE q4
        q6 == IF Len(filter.GrantedScopesIntersection) > 0
              THEN Assign(q5, "scopes",
                          [op |-> "$all", v |-> filter.GrantedScopesIntersection])
              ELSE q5
    IN  q6

\* List: the query built from the filter, one assignment after the other
ListQuery(filter) ==
    LET q1 == IF filter.ClientID # ""
              THEN Assign(<<>>, "clientId", [op |-> "$eq", v |-> filter.ClientID])
              ELSE <<>>
        q2 == IF filter.UserID # ""
              THEN Assign(q1, "userId", [op |-> "$eq", v |-> filter.UserID])
              ELSE q1
        q3 == IF Len(filter.ScopesIntersection) > 0
              THEN Assign(q2, "scopes", [op |-> "$all", v |-> filter.ScopesIntersection])
              ELSE q2
        q4 == IF Len(filter.ScopesUnion) > 0
              THEN Assign(q3, "scopes", [op |-> "$in", v |-> filter.ScopesUnion])
              ELSE q3
        q5 == IF Len(filter.GrantedScopesIntersection) > 0
              THEN Assign(q4, "scopes",
                          [op |-> "$all", v |-> filter.GrantedScopesIntersection])
              ELSE q4
        q6 == IF Len(filter.GrantedScopesUnion) > 0
              THEN Assign(q5, "scopes", [op |-> "$in", v |-> filter.GrantedScopesUnion])
              ELSE q5
    IN  q6

\* List with the scope filters matched against the granted scopes
ListOnGrantedScopes(docs, filter, fail) ==
    IF fail THEN [err |-> EngineError, val |-> <<>>]
    ELSE [err |-> Nil,
          val |-> << { FromBSON(d) : d \in
                        { x \in docs :
                            Matches([x EXCEPT !.scopes = x.granted_scopes],
                                    ListQuery(filter)) } } >>]

\* List: Find with the query, then cursor.All; the records found as a set
List(docs, filter, fail) ==
    IF fail THEN [err |-> EngineError, val |-> <<>>]
    ELSE [err |-> Nil,
          val |-> << { FromBSON(d) : d \in
                        { x \in docs : Matches(x, ListQuery(filter)) } } >>]

DoList(entityName, filter, fail) ==
    LET out == List(db[entityName], filter, fail = 1)
    IN  /\ ret' = Result("List", entityName, "", <<filter>>, out.err, out.val, fail)
        /\ UNCHANGED <<db, clients, now, calls, invalidated>>
        /\ JtiUnchanged

\* the filters handed to List
ListFilters ==
    [ ClientID : {"", "c1"},
      UserID : {"", "u1"},
      ScopesIntersection : {<<>>, <<"A", "B">>, <<"C">>},
      ScopesUnion : {<<>>, <<"A", "C">>},
      GrantedScopesIntersection : {<<>>, <<"A">>},
      GrantedScopesUnion : {<<>>, <<"B">>} ]

\* a stored record with the id, signature, client, user and scope lists
Listed(id, signature, clientID, userID, scopes, granted) ==
    ToBSON([ ID |-> id, CreateTime |-> 1, UpdateTime |-> 0, RequestedAt |-> 1,
             Signature |-> signature, ClientID |-> clientID, UserID |-> userID,
             RequestedScope |-> scopes, GrantedScope |-> granted,
             RequestedAudience |-> <<"api1">>, GrantedAudience |-> <<"api1">>,
             Active |-> TRUE, Session |-> Marshal(SessionA) ])

\* three records a collection may hold after three Creates
ListDocs ==
    { Listed("i1", "s1", "c1", "u1", <<"A", "B">>, <<"A">>),
      Listed("i2", "s2", "c1", "u2", <<"A">>, <<"A">>),
      Listed("i3", "s3", "c2", "u1", <<"B", "C">>, <<"B">>) }

\* the refresh token collection holds any of the three records
InitList ==
    /\ db \in { [e \in Collections |-> IF e = EntityRefreshTokens THEN held ELSE {}] :
                held \in SUBSET ListDocs }
    /\ clients = {}
    /\ now = 1
    /\ denylist = <<>>
    /\ jtiIndex = FALSE
    /\ BlacklistedJTIs = NilMap
    /\ calls = [p \in Procs |-> IdleCall]
    /\ invalidated = {}
    /\ accepted = {}
    /\ ret = NoResult

NextList ==
    \E f \in ListFilters, x \in 0..1 : DoList(EntityRefreshTokens, f, x)

SpecList == InitList /\ [][NextList]_vars

(***************************************************************************)
(* The session wrappers of the other four collections                      *)
(***************************************************************************)
\* CreateAccessTokenSession: Create(toMongo(signature, request))
CreateAccessTokenSession(docs, signature, request, uuid, t, fail) ==
    IF request.Session = NilSession
    THEN [err |-> Panic, val |-> <<>>, docs |-> docs]
    ELSE Create(docs, EntityAccessTokens, toMongo(signature, request), uuid, t, fail)

\* GetAccessTokenSession: fetch by signature, then hydrate
GetAccessTokenSession(pick, session, cs, fail) ==
    LET got == GetBySignature(pick, fail)
        hyd == ToRequest(got.val[1], session, cs, fail = 2)
    IN  IF got.err # Nil THEN [err |-> got.err, val |-> <<>>]
        ELSE IF hyd.err # Nil THEN [err |-> hyd.err, val |-> <<>>]
             ELSE [err |-> Nil, val |-> hyd.val]

\* CreateRefreshTokenSession: Create(toMongo(signature, request))
CreateRefreshTokenSession(docs, signature, request, uuid, t, fail) ==
    IF request.Session = NilSession
    THEN [err |-> Panic, val |-> <<>>, docs |-> docs]
    ELSE Create(docs, EntityRefreshTokens, toMongo(signature, request), uuid, t, fail)

\* GetRefreshTokenSession: fetch by signature, then hydrate
GetRefreshTokenSession(pick, session, cs, fail) ==
    LET got == GetBySignature(pick, fail)
        hyd == ToRequest(got.val[1], session, cs, fail = 2)
    IN  IF got.err # Nil THEN [err |-> got.err, val |-> <<>>]
        ELSE IF hyd.err # Nil THEN [err |-> hyd.err, val |-> <<>>]
             ELSE [err |-> Nil, val |-> hyd.val]

\* CreatePKCERequestSession: Create(toMongo(signature, request))
CreatePKCERequestSession(docs, signature, request, uuid, t, fail) ==
    IF request.Session = NilSession
    THEN [err |-> Panic, val |-> <<>>, docs |-> docs]
    ELSE Create(docs, EntityPKCESessions, toMongo(signature, request), uuid, t, fail)

\* GetPKCERequestSession: fetch by signature, then hydrate
GetPKCERequestSession(pick, session, cs, fail) ==
    LET got == GetBySignature(pick, fail)
        hyd == ToRequest(got.val[1], session, cs, fail = 2)
    IN  IF got.err # Nil THEN [err |-> got.err, val |-> <<>>]
        ELSE IF hyd.err # Nil THEN [err |-> hyd.err, val |-> <<>>]
             ELSE [err |-> Nil, val |-> hyd.val]

\* CreateOpenIDConnectSession: Create(toMongo(authorizeCode, request))
CreateOpenIDConnectSession(docs, authorizeCode, request, uuid, t, fail) ==
    IF request.Session = NilSession
    THEN [err |-> Panic, val |-> <<>>, docs |-> docs]
    ELSE Create(docs, EntityOpenIDSessions, toMongo(authorizeCode, request), uuid, t, fail)

\* GetOpenIDConnectSession: fetch by signature, take the session of the
\* requester as the template, ErrNotFound when it has none, then hydrate
GetOpenIDConnectSession(pick, requester, cs, fail) ==
    LET got == GetBySignature(pick, fail)
        session == requester.Session
        hyd == ToRequest(got.val[1], session, cs, fail = 2)
    IN  IF got.err # Nil THEN [err |-> got.err, val |-> <<>>]
        ELSE IF session = NilSession THEN [err |-> ErrNotFound, val |-> <<>>]
             ELSE IF hyd.err # Nil THEN [err |-> hyd.err, val |-> <<>>]
                  ELSE [err |-> Nil, val |-> hyd.val]

\* the requester handed to GetOpenIDConnectSession, with the session template
RequesterOf(session) ==
    [ ID |-> "", RequestedAt |-> 0, ClientID |-> "c1", Session |-> session,
      RequestedScope |-> <<>>, GrantedScope |-> <<>>,
      RequestedAudience |-> <<>>, GrantedAudience |-> <<>> ]

\* the Create*Session wrapper of a collection
CreateSession(entityName, docs, signature, request, uuid, t, fail) ==
    CASE entityName = EntityAccessTokens ->
            CreateAccessTokenSession(docs, signature, request, uuid, t, fail)
      [] entityName = EntityRefreshTokens ->
            CreateRefreshTokenSession(docs, signature, request, uuid, t, fail)
      [] entityName = EntityPKCESessions ->
            CreatePKCERequestSession(docs, signature, request, uuid, t, fail)
      [] entityName = EntityOpenIDSessions ->
            CreateOpenIDConnectSession(docs, signature, request, uuid, t, fail)
      [] entityName = EntityAuthorizationCodes ->
            CreateAuthorizeCodeSession(docs, signature, request, uuid, t, fail)

\* the Get*Session wrapper of a collection
GetSession(entityName, pick, session, cs, fail) ==
    CASE entityName = EntityAccessTokens ->
            GetAccessTokenSession(pick, session, cs, fail)
      [] entityName = EntityRefreshTokens ->
            GetRefreshTokenSession(pick, session, cs, fail)
      [] entityName = EntityPKCESessions ->
            GetPKCERequestSession(pick, session, cs, fail)
      [] entityName = EntityOpenIDSessions ->
            GetOpenIDConnectSession(pick, RequesterOf(session), cs, fail)
      [] entityName = EntityAuthorizationCodes ->
            GetAuthorizeCodeSession(pick, session, cs, fail)

\* the names of the wrappers of a collection
CreateSessionOp(entityName) ==
    CASE entityName = EntityAccessTokens -> "CreateAccessTokenSession"
      [] entityName = EntityRefreshTokens -> "CreateRefreshTokenSession"
      [] entityName = EntityPKCESessions -> "CreatePKCERequestSession"
      [] entityName = EntityOpenIDSessions -> "CreateOpenIDConnectSession"
      [] entityName = EntityAuthorizationCodes -> "CreateAuthorizeCodeSession"

GetSessionOp(entityName) ==
    CASE entityName = EntityAccessTokens -> "GetAccessTokenSession"
      [] entityName = EntityRefreshTokens -> "GetRefreshTokenSession"
      [] entityName = EntityPKCESessions -> "GetPKCERequestSession"
      [] entityName = EntityOpenIDSessions -> "GetOpenIDConnectSession"
      [] entityName = EntityAuthorizationCodes -> "GetAuthorizeCodeSession"

DoCreateSession(entityName, signature, request, uuid, fail) ==
    LET out == CreateSession(entityName, db[entityName], signature, request,
                             uuid, now, fail)
    IN  /\ out.err = Nil => TotalDocs < MaxDocs
        /\ db' = [db EXCEPT ![entityName] = out.docs]
        /\ ret' = Result(CreateSessionOp(entityName), entityName, signature,
                         <<request>>, out.err, out.val, fail)
        /\ UNCHANGED <<clients, now, calls, invalidated>>
        /\ JtiUnchanged

DoGetSession(entityName, signature, session, fail) ==
    \E pick \in Picks(db[entityName], "signature", signature) :
        LET out == GetSession(entityName, pick, session, clients, fail)
        IN  /\ ret' = Result(GetSessionOp(entityName), entityName, signature,
                             <<session>>, out.err, out.val, fail)
            /\ UNCHANGED <<db, clients, now, calls, invalidated>>
            /\ JtiUnchanged

\* the signature the session specification issues grants under
SessionSignatures == {"s1"}

\* the filters of the List calls of the session specification
SessionFilters ==
    { f \in ListFilters :
        /\ f.UserID = "" /\ f.ScopesIntersection = <<>> /\ f.ScopesUnion = <<>>
        /\ f.GrantedScopesIntersection = <<>> /\ f.GrantedScopesUnion = <<>> }

\* the session wrappers of the five collections with the reads of the generic
\* store and the Client Store
NextSession ==
    \/ \E e \in Collections, c \in SessionSignatures, r \in Requesters :
         \E u \in UUIDs(r.ID) : DoCreateSession(e, c, r, u, 0)
    \/ \E e \in Collections, c \in SessionSignatures, se \in Templates, f \in 0..2 :
            DoGetSession(e, c, se, f)
    \/ \E c \in SessionSignatures : DoInvalidateAuthorizeCodeSession(c, 0)
    \/ \E e \in Collections, i \in IDs : DoGet(e, i, 0)
    \/ \E e \in Collections, c \in SessionSignatures : DoGetBySignature(e, c, 0)
    \/ \E e \in Collections, f \in SessionFilters : DoList(e, f, 0)
    \/ \E c \in ClientIDs : ClientCreate(c)
    \/ \E c \in ClientIDs : ClientDelete(c)

SpecSession == Init /\ [][NextSession]_vars

(***************************************************************************)
(* The generic store with Update: a collection without and one with the    *)
(* unique signature index, the latter with InvalidateAuthorizeCodeSession   *)
(***************************************************************************)
UpdateEntities == {EntityAccessTokens, EntityAuthorizationCodes}

\* the records handed to Create and Update; they carry no create time and no
\* update time
UpdateRequests ==
    { [ ID |-> i, CreateTime |-> 0, UpdateTime |-> 0, RequestedAt |-> 1,
        Signature |-> s, ClientID |-> "c1", UserID |-> "u1",
        RequestedScope |-> <<"read", "write">>, GrantedScope |-> <<"read">>,
        RequestedAudience |-> <<"api1">>, GrantedAudience |-> <<"api1">>,
        Active |-> TRUE, Session |-> Marshal(SessionA) ] :
      i \in {""} \cup IDs, s \in Signatures }

NextUpdate ==
    \/ \E e \in UpdateEntities, r \in UpdateRequests : \E u \in UUIDs(r.ID) :
            DoCreate(e, r, u, 0)
    \/ \E e \in UpdateEntities, i \in IDs, r \in UpdateRequests :
            DoUpdate(e, i, r, 0)
    \/ \E e \in UpdateEntities, i \in IDs : DoDelete(e, i, 0)
    \/ \E e \in UpdateEntities, c \in Signatures : DoDeleteBySignature(e, c, 0)
    \/ \E e \in UpdateEntities, i \in IDs : DoGet(e, i, 0)
    \/ \E c \in Signatures : DoInvalidateAuthorizeCodeSession(c, 0)

SpecUpdate == Init /\ [][NextUpdate]_vars

(***************************************************************************)
(* Two callers, each running one Update or one Delete, on collections that *)
(* hold one record each                                                    *)
(***************************************************************************)
\* the records the racing Updates carry: they differ in signature and active
RaceUpdates ==
    { [r EXCEPT !.Active = a] : r \in {q \in UpdateRequests : q.ID = ""},
                                a \in BOOLEAN }

\* the record each collection holds when the callers start, as Create at
\* time 1 stored it
RaceStored(signature) ==
    ToBSON(CreateDefaults(
        CHOOSE r \in UpdateRequests : r.ID = "i1" /\ r.Signature = signature,
        "", 1))

InitUpdateRace ==
    /\ db = [e \in Collections |->
                IF e \in UpdateEntities THEN {RaceStored("s1")} ELSE {}]
    /\ clients = {}
    /\ now = 1
    /\ denylist = <<>>
    /\ jtiIndex = FALSE
    /\ BlacklistedJTIs = NilMap
    /\ calls = [p \in Procs |-> IdleCall]
    /\ invalidated = {}
    /\ accepted = {}
    /\ ret = NoResult

NextUpdateRace ==
    \/ \E p \in Procs, e \in UpdateEntities, i \in IDs, r \in RaceUpdates :
            UpdateBegin(p, e, i, r)
    \/ \E p \in Procs : UpdateReturn(p)
    \/ \E p \in Procs, e \in UpdateEntities, i \in IDs : DeleteBegin(p, e, i)
    \/ \E p \in Procs : DeleteReturn(p)
    \/ Tick

SpecUpdateRace == InitUpdateRace /\ [][NextUpdateRace]_vars

(***************************************************************************)
(* Two goroutines, each running one call of the in-memory replay check, on *)
(* the map as New leaves it or as the owner of the manager made it          *)
(***************************************************************************)
NextMemRace ==
    \/ \E p \in Procs, j \in JTIs, x \in Expiries : MemSetLock(p, j, x)
    \/ \E p \in Procs : MemSetSweep(p)
    \/ \E p \in Procs : MemSetCheck(p)
    \/ \E p \in Procs : MemSetInsert(p)
    \/ \E p \in Procs, j \in JTIs : MemValidRLock(p, j)
    \/ \E p \in Procs : MemValidReturn(p)
    \/ Tick

SpecMemRace == InitMem /\ [][NextMemRace]_vars

(***************************************************************************)
(* The operations of the store and of the persistent replay check over an  *)
(* engine whose calls may fail with a transport error                      *)
(***************************************************************************)
\* the records, the jti, the expiries and the filter the specification works
\* with; the entry with expiry 0 has expired when the specification starts
EngineRequests ==
    { r \in StoreRequests :
        r.RequestedScope = <<"read", "write">> /\ r.Signature = "s1" }
EngineJTIs == {"abc"}
EngineExpiries == {0, MaxTime}
EngineFilters == { f \in SessionFilters : f.ClientID = "" }

NextEngine ==
    \/ \E r \in EngineRequests, f \in 0..1 : \E u \in UUIDs(r.ID) :
            DoCreate(EntityRefreshTokens, r, u, f)
    \/ \E i \in IDs, f \in 0..1 : DoGet(EntityRefreshTokens, i, f)
    \/ \E f \in 0..1 : DoGetBySignature(EntityRefreshTokens, "s1", f)
    \/ \E x \in EngineFilters, f \in 0..1 : DoList(EntityRefreshTokens, x, f)
    \/ \E i \in IDs, r \in EngineRequests, f \in 0..1 :
            DoUpdate(EntityRefreshTokens, i, r, f)
    \/ \E i \in IDs, f \in 0..1 : DoDelete(EntityRefreshTokens, i, f)
    \/ \E f \in 0..1 : DoDeleteBySignature(EntityRefreshTokens, "s1", f)
    \/ \E i \in IDs, f \in 0..1 : RevokeRefreshToken(i, f)
    \/ \E se \in Templates, f \in 0..2 :
            DoGetSession(EntityRefreshTokens, "s1", se, f)
    \/ \E c \in ClientIDs : ClientCreate(c)
    \/ \E j \in EngineJTIs, f \in 0..2 : DoSetClientAssertionJWT(j, MaxTime, f)
    \/ \E j \in EngineJTIs, f \in 0..1 : DoClientAssertionJWTValid(j, f)
    \/ \E j \in EngineJTIs, f \in 0..1 : DoIsJWTUsed(j, f)
    \/ \E j \in EngineJTIs, x \in EngineExpiries, f \in 0..1 :
            DoDeniedCreate(NewDeniedJTI(j, x), f)
    \/ \E j \in EngineJTIs, f \in 0..1 : DoDeniedGet(SignatureFromJTI(j), f)
    \/ \E j \in EngineJTIs, f \in 0..1 : DoDeniedDelete(j, f)
    \/ \E f \in 0..1 : DoDeleteBefore(now, f)

SpecEngine == Init /\ [][NextEngine]_vars

(***************************************************************************)
(* UserManager and ClientManager: the principals.  Their documents are the *)
(* records of the user and of the client collection, which db holds under  *)
(* the entity names of the two collections.                                *)
(***************************************************************************)
EntityClients == "client"
EntityUsers == "user"

ErrAccessDenied == "ErrAccessDenied"
ErrMismatchedHashAndPassword == "ErrMismatchedHashAndPassword"

\* Hasher.Hash: the hash of a secret is not the secret
Hash(secret) == "bcrypt:" \o secret

\* Hasher.Compare: nil when the hash is the hash of the secret
Compare(hash, secret) ==
    IF hash = Hash(secret) THEN Nil ELSE ErrMismatchedHashAndPassword

\* the document of a storage.User: the id and the username under the keys
\* that UserManager indexes and queries
UserToBSON(user) ==
    [ id |-> user.ID,
      createTime |-> user.CreateTime,
      updateTime |-> user.UpdateTime,
      username |-> user.Username,
      password |-> user.Password,
      disabled |-> user.Disabled ]

UserFromBSON(doc) ==
    [ ID |-> doc.id,
      CreateTime |-> doc.createTime,
      UpdateTime |-> doc.updateTime,
      Username |-> doc.username,
      Password |-> doc.password,
      Disabled |-> doc.disabled ]

\* UserManager.Configure with the unique index of the id only
UserConfigureIDOnly == {"id"}

\* UserManager.Configure: unique indexes on id and on username
UserConfigure == {"id", "username"}

\* UserManager.Create that stores the password as it was supplied
UserCreateStoresPlain(docs, user, uuid, t, fail) ==
    LET new == [user EXCEPT !.ID = IF @ = "" THEN uuid ELSE @,
                            !.CreateTime = IF @ = 0 THEN t ELSE @]
        ins == InsertOne(docs, UserConfigure, UserToBSON(new), fail = 1)
    IN  IF ins.err = DuplicateKey
        THEN [err |-> ErrResourceExists, val |-> <<>>, docs |-> ins.docs]
        ELSE IF ins.err # Nil
             THEN [err |-> ins.err, val |-> <<>>, docs |-> ins.docs]
             ELSE [err |-> Nil, val |-> <<new>>, docs |-> ins.docs]

\* UserManager.Create: the defaults, the hash of the password, InsertOne
UserCreate(docs, user, uuid, t, fail) ==
    LET new == [user EXCEPT !.ID = IF @ = "" THEN uuid ELSE @,
                            !.CreateTime = IF @ = 0 THEN t ELSE @,
                            !.Password = Hash(@)]
        ins == InsertOne(docs, UserConfigure, UserToBSON(new), fail = 1)
    IN  IF ins.err = DuplicateKey
        THEN [err |-> ErrResourceExists, val |-> <<>>, docs |-> ins.docs]
        ELSE IF ins.err # Nil
             THEN [err |-> ins.err, val |-> <<>>, docs |-> ins.docs]
             ELSE [err |-> Nil, val |-> <<new>>, docs |-> ins.docs]

\* UserManager.getConcrete / Get: FindOne by id
UserGet(pick, fail) ==
    IF fail = 1 THEN [err |-> EngineError, val |-> <<>>]
    ELSE IF pick = <<>> THEN [err |-> ErrNotFound, val |-> <<>>]
         ELSE [err |-> Nil, val |-> <<UserFromBSON(pick[1])>>]

\* UserManager.GetByUsername: FindOne by username
GetByUsername(pick, fail) ==
    IF fail = 1 THEN [err |-> EngineError, val |-> <<>>]
    ELSE IF pick = <<>> THEN [err |-> ErrNotFound, val |-> <<>>]
         ELSE [err |-> Nil, val |-> <<UserFromBSON(pick[1])>>]

\* UserManager.Update with a ReplaceOne that inserts when no document matches
\* and without the fetch of the current record
UserUpdateUpserts(docs, userID, updatedUser, pick, t, fail) ==
    LET upd == [updatedUser EXCEPT !.ID = userID, !.UpdateTime = t,
                                   !.Password = IF @ = "" THEN @ ELSE Hash(@)]
        rep == ReplaceOneUpsert(docs, UserConfigure, pick, UserToBSON(upd), fail = 2)
    IN  IF rep.err = DuplicateKey
        THEN [err |-> ErrResourceExists, val |-> <<>>, docs |-> rep.docs]
        ELSE IF rep.err # Nil
             THEN [err |-> rep.err, val |-> <<>>, docs |-> rep.docs]
             ELSE [err |-> Nil, val |-> <<upd>>, docs |-> rep.docs]

\* UserManager.Update: fetch the current record by id, force the id, refresh
\* the update time, keep or hash the password, ReplaceOne selected by id;
\* pick is the document with the id
UserUpdate(docs, userID, updatedUser, pick, t, fail) ==
    LET cur == UserGet(pick, fail)
        currentResource == cur.val[1]
        upd == [updatedUser EXCEPT
                   !.ID = userID,
                   !.UpdateTime = t,
                   !.Password = IF currentResource.Password = @ \/ @ = ""
                                THEN currentResource.Password
                                ELSE Hash(@)]
        rep == ReplaceOne(docs, UserConfigure, pick, UserToBSON(upd), fail = 2)
    IN  IF cur.err # Nil THEN [err |-> cur.err, val |-> <<>>, docs |-> docs]
        ELSE IF rep.err = DuplicateKey
             THEN [err |-> ErrResourceExists, val |-> <<>>, docs |-> rep.docs]
             ELSE IF rep.err # Nil
                  THEN [err |-> rep.err, val |-> <<>>, docs |-> rep.docs]
                  ELSE IF rep.MatchedCount = 0
                       THEN [err |-> ErrNotFound, val |-> <<>>, docs |-> rep.docs]
                       ELSE [err |-> Nil, val |-> <<upd>>, docs |-> rep.docs]

\* UserManager.Delete: DeleteOne by id
UserDelete(docs, old, fail) ==
    LET del == DeleteOne(docs, old, fail = 1)
    IN  IF del.err # Nil THEN [err |-> del.err, docs |-> del.docs]
        ELSE IF del.DeletedCount = 0 THEN [err |-> ErrNotFound, docs |-> del.docs]
             ELSE [err |-> Nil, docs |-> del.docs]

\* UserManager.Migrate: the defaults, the update time, ReplaceOne selected by
\* id with upsert: the record replaces the document with the id, or is
\* inserted when there is none; the password is stored as given
Migrate(docs, migratedUser, uuid, pick, t, fail) ==
    LET new == [migratedUser EXCEPT !.ID = IF @ = "" THEN uuid ELSE @,
                                    !.CreateTime = IF @ = 0 THEN t ELSE @,
                                    !.UpdateTime = t]
        rep == IF pick = <<>>
               THEN InsertOne(docs, UserConfigure, UserToBSON(new), fail = 1)
               ELSE ReplaceOne(docs, UserConfigure, pick, UserToBSON(new), fail = 1)
    IN  IF rep.err = DuplicateKey
        THEN [err |-> ErrResourceExists, val |-> <<>>, docs |-> rep.docs]
        ELSE IF rep.err # Nil
             THEN [err |-> rep.err, val |-> <<>>, docs |-> rep.docs]
             ELSE [err |-> Nil, val |-> <<new>>, docs |-> rep.docs]

\* the checks AuthenticateByID and AuthenticateByUsername make on the record
\* they fetched
AuthenticateFetched(got, password) ==
    IF got.err # Nil THEN [err |-> got.err, val |-> <<>>]
    ELSE IF got.val[1].Disabled THEN [err |-> ErrAccessDenied, val |-> <<>>]
         ELSE IF Compare(got.val[1].Password, password) # Nil
              THEN [err |-> Compare(got.val[1].Password, password), val |-> <<>>]
              ELSE [err |-> Nil, val |-> got.val]

\* UserManager.AuthenticateByID
AuthenticateByID(pick, password, fail) ==
    AuthenticateFetched(UserGet(pick, fail), password)

\* UserManager.AuthenticateByUsername
AuthenticateByUsername(pick, password, fail) ==
    AuthenticateFetched(GetByUsername(pick, fail), password)

\* UserManager.Authenticate
UserAuthenticate(pick, password, fail) ==
    AuthenticateByUsername(pick, password, fail)

\* the document of a storage.Client: the id, the flags and the hashed secret
\* under the keys that ClientManager queries
ClientToBSON(client) ==
    [ id |-> client.ID,
      createTime |-> client.CreateTime,
      updateTime |-> client.UpdateTime,
      secret |-> client.Secret,
      public |-> client.Public,
      disabled |-> client.Disabled ]

ClientFromBSON(doc) ==
    [ ID |-> doc.id,
      CreateTime |-> doc.createTime,
      UpdateTime |-> doc.updateTime,
      Secret |-> doc.secret,
      Public |-> doc.public,
      Disabled |-> doc.disabled ]

\* ClientManager.Configure builds no index
ClientConfigure == {}

\* ClientManager.Create: the defaults, the hash of the secret, InsertOne
ClientManagerCreate(docs, client, uuid, t, fail) ==
    LET new == [client EXCEPT !.ID = IF @ = "" THEN uuid ELSE @,
                              !.CreateTime = IF @ = 0 THEN t ELSE @,
                              !.Secret = Hash(@)]
        ins == InsertOne(docs, ClientConfigure, ClientToBSON(new), fail = 1)
    IN  IF ins.err = DuplicateKey
        THEN [err |-> ErrResourceExists, val |-> <<>>, docs |-> ins.docs]
        ELSE IF ins.err # Nil
             THEN [err |-> ins.err, val |-> <<>>, docs |-> ins.docs]
             ELSE [err |-> Nil, val |-> <<new>>, docs |-> ins.docs]

\* ClientManager.Migrate: the defaults, the update time of a record that
\* brings its create time, ReplaceOne selected by id with upsert; pick is the
\* document the engine matched, if any
ClientManagerMigrate(docs, migratedClient, uuid, pick, t, fail) ==
    LET new == [migratedClient EXCEPT
                   !.ID = IF @ = "" THEN uuid ELSE @,
                   !.CreateTime = IF @ = 0 THEN t ELSE @,
                   !.UpdateTime = IF migratedClient.CreateTime = 0 THEN @ ELSE t]
        res == ReplaceOneUpsert(docs, ClientConfigure, pick, ClientToBSON(new),
                                fail = 1)
    IN  IF res.err = DuplicateKey
        THEN [err |-> ErrResourceExists, val |-> <<>>, docs |-> res.docs]
        ELSE IF res.err # Nil
             THEN [err |-> res.err, val |-> <<>>, docs |-> res.docs]
             ELSE IF res.MatchedCount = 0
                  THEN [err |-> ErrNotFound, val |-> <<>>, docs |-> res.docs]
                  ELSE [err |-> Nil, val |-> <<new>>, docs |-> res.docs]

\* ClientManager.getConcrete: FindOne by id
ClientGet(pick, fail) ==
    IF fail = 1 THEN [err |-> EngineError, val |-> <<>>]
    ELSE IF pick = <<>> THEN [err |-> ErrNotFound, val |-> <<>>]
         ELSE [err |-> Nil, val |-> <<ClientFromBSON(pick[1])>>]

\* ClientManager.Authenticate: a public client is authenticated before the
\* record is tested for Disabled
Authenticate(pick, secret, fail) ==
    LET got == ClientGet(pick, fail)
        client == got.val[1]
    IN  IF got.err # Nil THEN [err |-> got.err, val |-> <<>>]
        ELSE IF client.Public THEN [err |-> Nil, val |-> <<client>>]
             ELSE IF client.Disabled THEN [err |-> ErrAccessDenied, val |-> <<>>]
                  ELSE IF Compare(client.Secret, secret) # Nil
                       THEN [err |-> Compare(client.Secret, secret), val |-> <<>>]
                       ELSE [err |-> Nil, val |-> <<client>>]

PrincipalsUnchanged ==
    /\ UNCHANGED <<now, calls, invalidated>>
    /\ JtiUnchanged

DoUserCreate(user, uuid, fail) ==
    LET out == UserCreate(db[EntityUsers], user, uuid, now, fail)
    IN  /\ out.err = Nil => Cardinality(db[EntityUsers]) < MaxDocs
        /\ db' = [db EXCEPT ![EntityUsers] = out.docs]
        /\ ret' = Result("UserManager.Create", EntityUsers, user.ID, <<user>>,
                         out.err, out.val, fail)
        /\ UNCHANGED clients
        /\ PrincipalsUnchanged

DoUserGet(userID, fail) ==
    \E pick \in Picks(db[EntityUsers], "id", userID) :
        LET out == UserGet(pick, fail)
        IN  /\ ret' = Result("UserManager.Get", EntityUsers, userID, <<>>,
                             out.err, out.val, fail)
            /\ UNCHANGED <<db, clients>>
            /\ PrincipalsUnchanged

DoGetByUsername(username, fail) ==
    \E pick \in Picks(db[EntityUsers], "username", username) :
        LET out == GetByUsername(pick, fail)
        IN  /\ ret' = Result("UserManager.GetByUsername", EntityUsers, username, <<>>,
                             out.err, out.val, fail)
            /\ UNCHANGED <<db, clients>>
            /\ PrincipalsUnchanged

DoUserUpdate(userID, updatedUser, fail) ==
    \E pick \in Picks(db[EntityUsers], "id", userID) :
        LET out == UserUpdate(db[EntityUsers], userID, updatedUser, pick, now, fail)
        IN  /\ db' = [db EXCEPT ![EntityUsers] = out.docs]
            /\ ret' = Result("UserManager.Update", EntityUsers, userID,
                             <<updatedUser>>, out.err, out.val, fail)
            /\ UNCHANGED clients
            /\ PrincipalsUnchanged

DoUserDelete(userID, fail) ==
    \E old \in Picks(db[EntityUsers], "id", userID) :
        LET out == UserDelete(db[EntityUsers], old, fail)
        IN  /\ db' = [db EXCEPT ![EntityUsers] = out.docs]
            /\ ret' = Result("UserManager.Delete", EntityUsers, userID, <<>>,
                             out.err, <<>>, fail)
            /\ UNCHANGED clients
            /\ PrincipalsUnchanged

DoMigrate(migratedUser, uuid, fail) ==
    \E pick \in Picks(db[EntityUsers], "id",
                      IF migratedUser.ID = "" THEN uuid ELSE migratedUser.ID) :
        LET out == Migrate(db[EntityUsers], migratedUser, uuid, pick, now, fail)
        IN  /\ Cardinality(out.docs) <= MaxDocs
            /\ db' = [db EXCEPT ![EntityUsers] = out.docs]
            /\ ret' = Result("UserManager.Migrate", EntityUsers, migratedUser.ID,
                             <<migratedUser>>, out.err, out.val, fail)
            /\ UNCHANGED clients
            /\ PrincipalsUnchanged

DoAuthenticateByID(userID, password, fail) ==
    \E pick \in Picks(db[EntityUsers], "id", userID) :
        LET out == AuthenticateByID(pick, password, fail)
        IN  /\ ret' = Result("UserManager.AuthenticateByID", EntityUsers, userID,
                             <<password>>, out.err, out.val, fail)
            /\ UNCHANGED <<db, clients>>
            /\ PrincipalsUnchanged

DoAuthenticateByUsername(username, password, fail) ==
    \E pick \in Picks(db[EntityUsers], "username", username) :
        LET out == AuthenticateByUsername(pick, password, fail)
        IN  /\ ret' = Result("UserManager.AuthenticateByUsername", EntityUsers,
                             username, <<password>>, out.err, out.val, fail)
            /\ UNCHANGED <<db, clients>>
            /\ PrincipalsUnchanged

DoUserAuthenticate(username, password, fail) ==
    \E pick \in Picks(db[EntityUsers], "username", username) :
        LET out == UserAuthenticate(pick, password, fail)
        IN  /\ ret' = Result("UserManager.Authenticate", EntityUsers,
                             username, <<password>>, out.err, out.val, fail)
            /\ UNCHANGED <<db, clients>>
            /\ PrincipalsUnchanged

DoClientManagerCreate(client, uuid, fail) ==
    LET out == ClientManagerCreate(db[EntityClients], client, uuid, now, fail)
    IN  /\ out.err = Nil => Cardinality(db[EntityClients]) < MaxDocs
        /\ db' = [db EXCEPT ![EntityClients] = out.docs]
        /\ clients' = { d.id : d \in out.docs }
        /\ ret' = Result("ClientManager.Create", EntityClients, client.ID,
                         <<client>>, out.err, out.val, fail)
        /\ PrincipalsUnchanged

DoClientManagerMigrate(migratedClient, uuid, fail) ==
    \E pick \in Picks(db[EntityClients], "id",
                      IF migratedClient.ID = "" THEN uuid ELSE migratedClient.ID) :
        LET out == ClientManagerMigrate(db[EntityClients], migratedClient, uuid,
                                        pick, now, fail)
        IN  /\ Cardinality(out.docs) <= MaxDocs
            /\ db' = [db EXCEPT ![EntityClients] = out.docs]
            /\ clients' = { d.id : d \in out.docs }
            /\ ret' = Result("ClientManager.Migrate", EntityClients,
                             migratedClient.ID, <<migratedClient>>, out.err,
                             out.val, fail)
            /\ PrincipalsUnchanged

DoClientGet(clientID, fail) ==
    \E pick \in Picks(db[EntityClients], "id", clientID) :
        LET out == ClientGet(pick, fail)
        IN  /\ ret' = Result("ClientManager.Get", EntityClients, clientID, <<>>,
                             out.err, out.val, fail)
            /\ UNCHANGED <<db, clients>>
            /\ PrincipalsUnchanged

DoAuthenticate(clientID, secret, fail) ==
    \E pick \in Picks(db[EntityClients], "id", clientID) :
        LET out == Authenticate(pick, secret, fail)
        IN  /\ ret' = Result("ClientManager.Authenticate", EntityClients, clientID,
                             <<secret>>, out.err, out.val, fail)
            /\ UNCHANGED <<db, clients>>
            /\ PrincipalsUnchanged

\* the principals handed to Create and Update, and the secrets tried
Usernames == {"alice", "bob"}
Secrets == {"pw1", "pw2"}

UserRecords ==
    { [ ID |-> i, CreateTime |-> 0, UpdateTime |-> 0, Username |-> n,
        Password |-> "pw1", Disabled |-> d ] :
      i \in {""} \cup IDs, n \in Usernames, d \in BOOLEAN }

\* the records handed to Update: no password, the password of Create, its
\* stored hash, another password
UpdatePasswords == {"", "pw1", Hash("pw1"), "pw2"}

UpdateRecords ==
    { [u EXCEPT !.Password = x] :
      u \in { v \in UserRecords : v.ID = "" }, x \in UpdatePasswords }

ClientRecords ==
    { [ ID |-> "c1", CreateTime |-> 0, UpdateTime |-> 0, Secret |-> "pw1",
        Public |-> pu,
        Disabled |-> d ] :
      pu \in BOOLEAN, d \in BOOLEAN }

\* New: empty collections, the user and the client collection among them
InitPrincipals ==
    /\ db = [e \in Collections \cup {EntityClients, EntityUsers} |-> {}]
    /\ clients = {}
    /\ now = 1
    /\ denylist = <<>>
    /\ jtiIndex = FALSE
    /\ BlacklistedJTIs = NilMap
    /\ calls = [p \in Procs |-> IdleCall]
    /\ invalidated = {}
    /\ accepted = {}
    /\ ret = NoResult

\* the authentication of clients and users
NextAuth ==
    \/ \E c \in ClientRecords : DoClientManagerCreate(c, "", 0)
    \/ \E c \in ClientIDs, x \in Secrets, f \in 0..1 : DoAuthenticate(c, x, f)
    \/ \E u \in UserRecords : \E i \in UUIDs(u.ID) : DoUserCreate(u, i, 0)
    \/ \E i \in IDs, x \in Secrets, f \in 0..1 : DoAuthenticateByID(i, x, f)
    \/ \E n \in Usernames, x \in Secrets, f \in 0..1 : DoAuthenticateByUsername(n, x, f)
    \/ \E n \in Usernames, x \in Secrets, f \in 0..1 : DoUserAuthenticate(n, x, f)

SpecAuth == InitPrincipals /\ [][NextAuth]_vars

\* the user store
NextUsers ==
    \/ \E u \in UserRecords : \E i \in UUIDs(u.ID) : DoUserCreate(u, i, 0)
    \/ \E i \in IDs : DoUserGet(i, 0)
    \/ \E n \in Usernames : DoGetByUsername(n, 0)
    \/ \E i \in IDs, u \in UserRecords, f \in 0..2 : DoUserUpdate(i, u, f)
    \/ \E i \in IDs, f \in 0..1 : DoUserDelete(i, f)
    \/ \E u \in UserRecords : \E i \in UUIDs(u.ID), f \in 0..1 : DoMigrate(u, i, f)

SpecUsers == InitPrincipals /\ [][NextUsers]_vars

\* InvalidateAuthorizeCodeSession run by caller p, its read: GetBySignature
\* of the code; ErrNotFound ends the call, otherwise the caller holds the
\* record it read with Active cleared
InvalidateBegin(p, code) ==
    /\ calls[p].pc = "idle"
    /\ \E pick \in Picks(db[EntityAuthorizationCodes], "signature", code) :
          LET got == GetBySignature(pick, 0)
          IN  calls' = [calls EXCEPT ![p] =
                  IF got.err # Nil
                  THEN [pc |-> "done", op |-> "Invalidate",
                        entity |-> EntityAuthorizationCodes, id |-> "",
                        request |-> <<>>, err |-> got.err]
                  ELSE [pc |-> "invalidate", op |-> "Invalidate",
                        entity |-> EntityAuthorizationCodes,
                        id |-> got.val[1].ID,
                        request |-> <<[got.val[1] EXCEPT !.UpdateTime = now,
                                                         !.Active = FALSE]>>,
                        err |-> Nil]]
    /\ ret' = Result("GetBySignature", EntityAuthorizationCodes, code, <<>>,
                     calls'[p].err, calls'[p].request, 0)
    /\ UNCHANGED <<db, clients, now, invalidated>>
    /\ JtiUnchanged

\* its write: Update by the id of the record it read, which replaces the
\* stored document by that record
InvalidateReturn(p) ==
    /\ calls[p].pc = "invalidate"
    /\ LET e == calls[p].entity
           req == calls[p].request[1]
       IN  \E old \in Picks(db[e], "id", req.ID) :
             LET out == Update(db[e], e, req.ID, req, old, now, 0)
             IN  /\ db' = [db EXCEPT ![e] = out.docs]
                 /\ calls' = [calls EXCEPT ![p].pc = "done", ![p].err = out.err]
                 /\ invalidated' = IF out.err = Nil
                                    THEN invalidated \cup {req.Signature}
                                    ELSE invalidated
                 /\ ret' = Result("InvalidateAuthorizeCodeSession", e,
                                  req.Signature, <<>>, out.err, <<>>, 0)
    /\ UNCHANGED <<clients, now>>
    /\ JtiUnchanged

\* callers that invalidate the stored authorization code and callers that
\* update its record
NextInvalidateRace ==
    \/ \E p \in Procs, c \in Signatures : InvalidateBegin(p, c)
    \/ \E p \in Procs : InvalidateReturn(p)
    \/ \E p \in Procs, i \in IDs, r \in RaceUpdates :
            UpdateBegin(p, EntityAuthorizationCodes, i, r)
    \/ \E p \in Procs : UpdateReturn(p)
    \/ Tick

SpecInvalidateRace == InitUpdateRace /\ [][NextInvalidateRace]_vars

\* a Delete*Session that reports the outcome of DeleteBySignature and leaves
\* the collection as it was
DeleteSessionKeepsRecord(docs, old, fail) ==
    [err |-> Delete(docs, old, fail).err, docs |-> docs]

\* DeleteAccessTokenSession, DeleteRefreshTokenSession,
\* DeletePKCERequestSession, DeleteOpenIDConnectSession: DeleteBySignature on
\* the collection of the wrapper, its error returned as it is
DeleteSession(docs, old, fail) ==
    Delete(docs, old, fail)

\* the collections that have a Delete*Session wrapper
DeleteSessionEntities == Collections \ {EntityAuthorizationCodes}

DeleteSessionOp(entityName) ==
    CASE entityName = EntityAccessTokens -> "DeleteAccessTokenSession"
      [] entityName = EntityRefreshTokens -> "DeleteRefreshTokenSession"
      [] entityName = EntityPKCESessions -> "DeletePKCERequestSession"
      [] entityName = EntityOpenIDSessions -> "DeleteOpenIDConnectSession"

DoDeleteSession(entityName, signature, fail) ==
    \E old \in Picks(db[entityName], "signature", signature) :
        LET out == DeleteSession(db[entityName], old, fail)
        IN  /\ db' = [db EXCEPT ![entityName] = out.docs]
            /\ ret' = Result(DeleteSessionOp(entityName), entityName, signature,
                             <<>>, out.err, <<>>, fail)
            /\ UNCHANGED <<clients, now, calls, invalidated>>
            /\ JtiUnchanged

\* no other collection than e holds a record
OnlyIn(e) == \A o \in Collections \ {e} : db[o] = {}

\* deletion by signature in any one of the five collections, with the writes
\* that can store a signature
NextDelete ==
    \/ \E e \in Collections, r \in UpdateRequests : \E u \in UUIDs(r.ID) :
            OnlyIn(e) /\ DoCreate(e, r, u, 0)
    \/ \E e \in Collections, i \in IDs, r \in UpdateRequests :
            r.ID = "" /\ DoUpdate(e, i, r, 0)
    \/ \E e \in Collections, c \in Signatures, f \in 0..1 :
            DoDeleteBySignature(e, c, f)
    \/ \E e \in DeleteSessionEntities, c \in Signatures, f \in 0..1 :
            DoDeleteSession(e, c, f)

SpecDelete == Init /\ [][NextDelete]_vars

\* the records and requesters of one grant: one id, one signature
IsolationRequests ==
    { r \in UpdateRequests : r.ID = "i1" /\ r.Signature \in SessionSignatures }
IsolationRequesters == { q \in Requesters : q.ID = "i1" /\ q.Session # NilSession }

\* every writing operation, on all five collections
NextIsolation ==
    \/ \E e \in Collections, r \in IsolationRequests : DoCreate(e, r, "", 0)
    \/ \E e \in Collections, c \in SessionSignatures, r \in IsolationRequesters :
            DoCreateSession(e, c, r, "", 0)
    \/ \E e \in Collections, r \in IsolationRequests : DoUpdate(e, r.ID, r, 0)
    \/ \E e \in Collections, r \in IsolationRequests : DoDelete(e, r.ID, 0)
    \/ \E e \in Collections, c \in SessionSignatures : DoDeleteBySignature(e, c, 0)
    \/ \E e \in DeleteSessionEntities, c \in SessionSignatures :
            DoDeleteSession(e, c, 0)
    \/ \E r \in IsolationRequests : RevokeRefreshToken(r.ID, 0)
    \/ \E r \in IsolationRequests : RevokeAccessToken(r.ID, 0)
    \/ \E r \in IsolationRequests :
            RevokeRefreshTokenMaybeGracePeriod(r.ID, r.Signature, 0)
    \/ \E c \in SessionSignatures : DoInvalidateAuthorizeCodeSession(c, 0)

SpecIsolation == Init /\ [][NextIsolation]_vars

\* the client store: clients are created, migrated and read; a migrated
\* record may bring its create time
MigrateRecords ==
    { [c EXCEPT !.ID = i, !.CreateTime = t] :
      c \in ClientRecords, i \in {"", "c1"}, t \in {0, 1} }

NextClients ==
    \/ \E c \in ClientRecords : DoClientManagerCreate(c, "", 0)
    \/ \E c \in MigrateRecords : \E i \in UUIDs(c.ID), f \in 0..1 :
          DoClientManagerMigrate(c, i, f)
    \/ \E c \in ClientIDs \cup IDs, f \in 0..1 : DoClientGet(c, f)

SpecClients == InitPrincipals /\ [][NextClients]_vars

\* the passwords of the user store: users are created, their passwords
\* updated and tried
NextPasswords ==
    \/ \E u \in UserRecords : \E i \in UUIDs(u.ID) :
          u.ID = "" /\ DoUserCreate(u, i, 0)
    \/ \E i \in IDs, u \in UpdateRecords, f \in 0..2 : DoUserUpdate(i, u, f)
    \/ \E u \in UserRecords : \E i \in UUIDs(u.ID) :
          u.ID = "" /\ DoMigrate(u, i, 0)
    \/ \E i \in IDs, x \in Secrets : DoAuthenticateByID(i, x, 0)

SpecPasswords == InitPrincipals /\ [][NextPasswords]_vars

(***************************************************************************)
(* Properties of the authorization-code layer (SpecCode)                   *)
(***************************************************************************)
Codes == db[EntityAuthorizationCodes]

\* the step is a GetAuthorizeCodeSession for the code of document d whose
\* engine calls all went through
GetsCode(d) ==
    /\ ret'.op = "GetAuthorizeCodeSession"
    /\ ret'.key = d.signature
    /\ ret'.fail = 0

Compatible(bytes, template) ==
    template = NilSession \/ Unmarshal(bytes, template).err = Nil

GenericWrites == {"Create", "Update", "Delete", "DeleteBySignature"}

C3_InvalidatedReturnsRequest ==
    [][ /\ \A d \in Codes :
              (GetsCode(d) /\ ~d.active) =>
                  ret'.err = ErrInvalidatedAuthorizeCode /\ ret'.val # <<>>
        /\ (ret'.op = "GetAuthorizeCodeSession"
              /\ ret'.err = ErrInvalidatedAuthorizeCode) => ret'.val # <<>> ]_vars

\* C4: GetAuthorizeCodeSession on a stored record with active=false does not
\* return ErrNotFound, also when the client of the record is gone.
C4_ReplayNeverNotFound ==
    [][ \A d \in Codes :
          (GetsCode(d) /\ ~d.active) => ret'.err # ErrNotFound ]_vars

\* C5: CreateAuthorizeCodeSession stores the record with active=true, and a
\* GetAuthorizeCodeSession on a stored active record with a compatible
\* template and an existing client returns the request without error and
\* leaves the record as it is, so that it can be read any number of times.
C5_IssuedActiveReadNotConsumed ==
    [][ /\ (ret'.op = "CreateAuthorizeCodeSession" /\ ret'.err = Nil) =>
              \E d \in db'[EntityAuthorizationCodes] :
                  d.signature = ret'.key /\ d.active /\ d \notin Codes
        /\ \A d \in Codes :
              ( /\ GetsCode(d)
                /\ d.active
                /\ d.client_id \in clients
                /\ Compatible(d.session_data, ret'.arg[1]) ) =>
                  /\ ret'.err = Nil
                  /\ ret'.val # <<>>
                  /\ ret'.val[1].ID = d.id
                  /\ ret'.val[1].RequestedScope = d.scopes
                  /\ db' = db ]_vars

C5_Witness ==
    /\ ret.op = "GetAuthorizeCodeSession"
    /\ ret.err = Nil
    /\ ret.val # <<>>
    /\ \E d \in Codes : d.signature = ret.key /\ d.active /\ d.client_id \in clients

(***************************************************************************)
(* Properties of the generic store and of revocation (Spec)                *)
(***************************************************************************)
RevokeOps == {"RevokeAccessToken", "RevokeRefreshToken",
              "RevokeRefreshTokenMaybeGracePeriod"}

\* C9: a revocation returns success whether or not a record with the id is
\* stored, no record with the id is stored after a success, no other record
\* changes, and an engine error of the delete is returned as it is.
C9_RevocationIdempotent ==
    [][ ret'.op \in RevokeOps =>
          LET e == ret'.entity
          IN  /\ ret'.fail = 0 => ret'.err = Nil
              /\ ret'.fail # 0 => (ret'.err = EngineError /\ db' = db)
              /\ ret'.err = Nil =>
                    /\ Find(db'[e], "id", ret'.key) = {}
                    /\ db'[e] = db[e] \ Find(db[e], "id", ret'.key)
              /\ \A o \in Collections \ {e} : db'[o] = db[o] ]_vars

C9_Witness ==
    /\ ret.op \in RevokeOps
    /\ ret.err = Nil
    /\ Find(db[ret.entity], "id", ret.key) = {}
    /\ db[ret.entity] # {}

\* the scope and audience lists of record got are those of record r
SameLists(got, r) ==
    /\ got.RequestedScope = r.RequestedScope
    /\ got.GrantedScope = r.GrantedScope
    /\ got.RequestedAudience = r.RequestedAudience
    /\ got.GrantedAudience = r.GrantedAudience

\* GetBySignature and Get, whatever document the engine picks, return the
\* lists of r and the id of the created record
ReadsBack(e, r, created, bySignature) ==
    /\ bySignature =>
          \A pick \in Picks(db[e], "signature", r.Signature) :
              LET got == GetBySignature(pick, 0)
              IN  got.err = Nil /\ SameLists(got.val[1], r)
                    /\ got.val[1].ID = created.ID
    /\ \A pick \in Picks(db[e], "id", created.ID) :
          LET got == getConcrete(pick, 0)
          IN  got.err = Nil /\ SameLists(got.val[1], r)
                /\ got.val[1].ID = created.ID
    /\ r.ID # "" => created.ID = r.ID
    /\ Cardinality(Find(db[e], "id", created.ID)) = 1

SignaturesUnique(e) ==
    \A d1 \in db[e] : \A d2 \in db[e] : d1.signature = d2.signature => d1 = d2

\* both callers have returned from a Create in collection e with the same
\* signature and different ids
RacedOn(e) ==
    /\ \A p \in Procs : calls[p].pc = "done" /\ calls[p].entity = e
    /\ calls[1].request[1].Signature = calls[2].request[1].Signature
    /\ calls[1].request[1].ID # calls[2].request[1].ID

OneSucceeds ==
    \E p \in Procs : \E q \in Procs \ {p} :
        calls[p].err = Nil /\ calls[q].err = ErrResourceExists

MemEntries(jti) == { en \in BlacklistedJTIs.entries : en[1] = jti }

\* C6: SetClientAssertionJWT(jti, exp) with exp in the future succeeds and
\* stores exp when the map has no entry for the jti or only one whose expiry
\* has passed; while the map has an entry for the jti whose expiry is in the
\* future it fails with ErrJTIKnown and leaves that entry as it is.
C6_ReplayWindow ==
    [][ ret'.op = "DeniedJtiManager.SetClientAssertionJWT" =>
          LET jti == ret'.key
              exp == ret'.arg[1]
          IN  /\ ( /\ exp > now
                   /\ \A en \in MemEntries(jti) : en[2] < now ) =>
                      /\ ret'.err = Nil
                      /\ { en \in BlacklistedJTIs'.entries : en[1] = jti }
                            = {<<jti, exp>>}
              /\ (\E en \in MemEntries(jti) : en[2] > now) =>
                      /\ ret'.err = ErrJTIKnown
                      /\ { en \in BlacklistedJTIs'.entries : en[1] = jti }
                            = MemEntries(jti) ]_vars

(***************************************************************************)
(* Properties of the persistent replay check (SpecJti)                     *)
(***************************************************************************)
\* the documents of the deny list
Denied(list) == { list[i] : i \in 1..Len(list) }

\* C7: the persistent SetClientAssertionJWT removes every entry whose expiry
\* is in the past; when no entry for the jti is stored it returns success and
\* the entry for the jti is stored afterwards, also when there was nothing to
\* sweep; when the unique index rejects the insert it returns ErrJTIKnown.
C7_SweepThenInsert ==
    [][ (ret'.op = "ClientManager.SetClientAssertionJWT" /\ ret'.fail = 0) =>
          LET jti == ret'.key
              exp == ret'.arg[1]
              same == { d \in Denied(denylist) :
                          d.signature = SignatureFromJTI(jti) }
          IN  /\ same = {} =>
                      /\ ret'.err = Nil
                      /\ NewDeniedJTI(jti, exp) \in Denied(denylist')
              /\ \A d \in Denied(denylist) :
                      d.exp < now => d \notin Denied(denylist') \ {NewDeniedJTI(jti, exp)}
              /\ (jtiIndex /\ \E d \in same : ~(d.exp < now)) =>
                      ret'.err = ErrJTIKnown ]_vars

\* C8: after the persistent SetClientAssertionJWT has accepted a jti with an
\* expiry in the future, the persistent ClientAssertionJWTValid(jti) returns
\* ErrJTIKnown for as long as the entry is stored and its expiry has not
\* passed; it returns nil only when no entry for the signature of the jti is
\* stored or the stored entry has expired.
C8_PersistentReplayDetected ==
    [][ (ret'.op = "ClientManager.ClientAssertionJWTValid" /\ ret'.fail = 0) =>
          LET jti == ret'.key
              live == { d \in Denied(denylist) :
                          d.signature = SignatureFromJTI(jti) /\ d.exp > now }
          IN  /\ (\E a \in accepted : a[1] = jti /\ NewDeniedJTI(jti, a[2]) \in live)
                    => ret'.err = ErrJTIKnown
              /\ ret'.err = Nil => live = {} ]_vars

(***************************************************************************)
(* Properties of List (SpecList)                                           *)
(***************************************************************************)
\* the filter of the List call names no client, no user and no granted scope
ScopesOnly(filter) ==
    /\ filter.ClientID = ""
    /\ filter.UserID = ""
    /\ filter.GrantedScopesIntersection = <<>>
    /\ filter.GrantedScopesUnion = <<>>

\* the records of collection e whose scope list contains every listed scope
WithAll(e, scopes) ==
    { FromBSON(d) : d \in { x \in db[e] : Range(scopes) \subseteq Range(x.scopes) } }

\* the records of collection e whose scope list contains a listed scope
WithAny(e, scopes) ==
    { FromBSON(d) : d \in { x \in db[e] : Range(scopes) \cap Range(x.scopes) # {} } }

\* the three records of the example: scopes {A,B}, {A} and {B,C}
First == FromBSON(Listed("i1", "s1", "c1", "u1", <<"A", "B">>, <<"A">>))
Second == FromBSON(Listed("i2", "s2", "c1", "u2", <<"A">>, <<"A">>))
Third == FromBSON(Listed("i3", "s3", "c2", "u1", <<"B", "C">>, <<"B">>))

\* the List call with only the scope filters, on the three records
ListsExample(intersection, union) ==
    /\ ret.op = "List"
    /\ ret.fail = 0
    /\ ScopesOnly(ret.arg[1])
    /\ ret.arg[1].ScopesIntersection = intersection
    /\ ret.arg[1].ScopesUnion = union
    /\ db[ret.entity] = ListDocs

\* List with only a scope intersection filter returns exactly the records of
\* the collection whose scope list contains all listed scopes, and List with
\* only a scope union filter returns exactly the records whose scope list
\* contains at least one listed scope
FiltersByScope ==
    (ret.op = "List" /\ ret.fail = 0 /\ ScopesOnly(ret.arg[1])) =>
        LET f == ret.arg[1]
        IN  /\ ret.err = Nil
            /\ (f.ScopesIntersection # <<>> /\ f.ScopesUnion = <<>>) =>
                  ret.val[1] = WithAll(ret.entity, f.ScopesIntersection)
            /\ (f.ScopesUnion # <<>> /\ f.ScopesIntersection = <<>>) =>
                  ret.val[1] = WithAny(ret.entity, f.ScopesUnion)

\* C11 (as claimed): List filters by scope as described, and for the records
\* with scopes {A,B}, {A}, {B,C} intersection [A,B] returns only the first and
\* union [A,C] returns the first and the third.
C11_ScopeFilteringExample ==
    /\ FiltersByScope
    /\ ListsExample(<<"A", "B">>, <<>>) => ret.val = <<{First}>>
    /\ ListsExample(<<>>, <<"A", "C">>) => ret.val = <<{First, Third}>>

\* C11 (amended): List filters by scope as described, and for the records
\* with scopes {A,B}, {A}, {B,C} intersection [A,B] returns only the first and
\* union [A,C] returns all three, the second having scope A.
C11_ScopeFiltering ==
    /\ FiltersByScope
    /\ ListsExample(<<"A", "B">>, <<>>) => ret.val = <<{First}>>
    /\ ListsExample(<<>>, <<"A", "C">>) => ret.val = <<{First, Second, Third}>>

C11_Witness ==
    /\ ListsExample(<<>>, <<"A", "C">>)
    /\ ret.err = Nil
    /\ Second \in ret.val[1]

\* C12: when List is given an intersection filter and a union filter for the
\* same scope field, the result is that of the same call without the
\* intersection filter; with no other filter it is the set of records whose
\* scope list contains at least one scope of the union filter.
C12_UnionDecides ==
    (ret.op = "List" /\ ret.fail = 0) =>
        LET f == ret.arg[1]
            docs == db[ret.entity]
        IN  /\ (f.ScopesIntersection # <<>> /\ f.ScopesUnion # <<>>) =>
                  /\ ret.val = List(docs, [f EXCEPT !.ScopesIntersection = <<>>],
                                    FALSE).val
                  /\ ScopesOnly(f) => ret.val[1] = WithAny(ret.entity, f.ScopesUnion)
            /\ (f.GrantedScopesIntersection # <<>> /\ f.GrantedScopesUnion # <<>>) =>
                  ret.val = List(docs, [f EXCEPT !.GrantedScopesIntersection = <<>>],
                                 FALSE).val

C12_Witness ==
    /\ ret.op = "List"
    /\ ret.err = Nil
    /\ ScopesOnly(ret.arg[1])
    /\ ret.arg[1].ScopesIntersection = <<"A", "B">>
    /\ ret.arg[1].ScopesUnion = <<"A", "C">>
    /\ db[ret.entity] = ListDocs
    /\ ret.val = <<{First, Second, Third}>>

(***************************************************************************)
(* Properties of session hydration and of the reads (SpecSession)          *)
(***************************************************************************)
\* the step is the Get*Session wrapper of collection e for the signature of
\* its document d, with no failure of the fetch by signature
GetsSession(e, d) ==
    /\ ret'.op = GetSessionOp(e)
    /\ ret'.entity = e
    /\ ret'.key = d.signature
    /\ ret'.fail # 1

\* C13: when the stored session bytes do not decode into the session template
\* of the caller, every Get*Session operation returns the decoding error and
\* no request, whatever the Client Store holds or answers; a request that is
\* returned carries the session decoded from the stored bytes.
C13_HydrationFailsClosed ==
    [][ \A e \in Collections : \A d \in db[e] :
          GetsSession(e, d) =>
              LET template == ret'.arg[1]
              IN  /\ (template # NilSession
                        /\ Unmarshal(d.session_data, template).err # Nil) =>
                          (ret'.err = ErrDeserialization /\ ret'.val = <<>>)
                  /\ (template # NilSession /\ ret'.val # <<>>) =>
                          ret'.val[1].Session
                              = Unmarshal(d.session_data, template).session ]_vars

C13_Witness ==
    /\ ret.op = "GetPKCERequestSession"
    /\ ret.arg[1] = TemplateB
    /\ ret.fail = 2
    /\ ret.err = ErrDeserialization
    /\ \E d \in db[EntityPKCESessions] : d.signature = ret.key

\* C14 (as claimed): every Get*Session operation on a stored record whose
\* client the Client Store does not have returns ErrNotFound and no request.
C14_ClientGoneNotFound ==
    [][ \A e \in Collections : \A d \in db[e] :
          (GetsSession(e, d) /\ ret'.fail = 0 /\ d.client_id \notin clients) =>
              (ret'.err = ErrNotFound /\ ret'.val = <<>>) ]_vars

\* C14 (amended): as claimed when the stored session bytes decode into the
\* session template or the template is nil; when they do not decode the
\* operation returns the decoding error and no request.
C14_ClientGoneNotFoundWhenDecoded ==
    [][ \A e \in Collections : \A d \in db[e] :
          (GetsSession(e, d) /\ ret'.fail = 0 /\ d.client_id \notin clients) =>
              /\ ret'.val = <<>>
              /\ ret'.err = IF Compatible(d.session_data, ret'.arg[1])
                            THEN ErrNotFound ELSE ErrDeserialization ]_vars

C14_Witness ==
    /\ ret.op = "GetRefreshTokenSession"
    /\ ret.arg[1] = TemplateA
    /\ ret.err = ErrNotFound
    /\ clients = {}
    /\ \E d \in db[EntityRefreshTokens] : d.signature = ret.key

ReadOps ==
    {"Get", "GetBySignature", "List"} \cup { GetSessionOp(e) : e \in Collections }

\* C15: Get, GetBySignature, List and every Get*Session operation, successful
\* or failing, leave every record of every collection, the Client Store and
\* the JTI deny list unchanged.
C15_ReadsChangeNothing ==
    [][ ret'.op \in ReadOps =>
          /\ db' = db
          /\ clients' = clients
          /\ denylist' = denylist
          /\ BlacklistedJTIs' = BlacklistedJTIs ]_vars

C15_Witness ==
    /\ ret.op = "GetBySignature"
    /\ ret.err = Nil
    /\ \E d \in db[ret.entity] : ret.val = <<FromBSON(d)>>

(***************************************************************************)
(* Properties of Create, Update and Delete (SpecUpdate)                    *)
(***************************************************************************)
\* every collection but e is as it was
OthersUnchanged(e) == \A o \in Collections \ {e} : db'[o] = db[o]

\* C16: a successful Update(collection, id, req) replaces the record stored
\* under id by req with its id set to id, also when req.id differs, and its
\* update time set to the current time; the collection keeps its number of
\* records and no other record, of this or another collection, changes.
C16_UpdateReplacesOne ==
    [][ (ret'.op = "Update" /\ ret'.err = Nil) =>
          LET e == ret'.entity
              id == ret'.key
              stored == [ret'.arg[1] EXCEPT !.ID = id, !.UpdateTime = now]
          IN  /\ \E old \in db[e] :
                    /\ old.id = id
                    /\ db'[e] = (db[e] \ {old}) \cup {ToBSON(stored)}
              /\ Cardinality(db'[e]) = Cardinality(db[e])
              /\ Find(db'[e], "id", id) = {ToBSON(stored)}
              /\ ret'.val = <<stored>>
              /\ OthersUnchanged(e) ]_vars

C16_Witness ==
    /\ ret.op = "Update"
    /\ ret.err = Nil
    /\ ret.arg[1].ID \notin {"", ret.key}
    /\ Cardinality(db[ret.entity]) = 2
    /\ \E d \in db[ret.entity] : d.id = ret.key /\ d.updated_at = now

\* the Update step is given an id no record of the collection has
UpdatesMissing ==
    /\ ret'.op = "Update"
    /\ ret'.fail = 0
    /\ Find(db[ret'.entity], "id", ret'.key) = {}

\* the Update step is given a stored id and the signature of another record
UpdatesToTakenSignature ==
    /\ ret'.op = "Update"
    /\ ret'.fail = 0
    /\ Find(db[ret'.entity], "id", ret'.key) # {}
    /\ \E d \in db[ret'.entity] :
          d.id # ret'.key /\ d.signature = ret'.arg[1].Signature

C18_IdsUnique ==
    [][ /\ \A e \in Collections : \A d1 \in db'[e] : \A d2 \in db'[e] :
              d1.id = d2.id => d1 = d2
        /\ ( /\ ret'.op = "Create"
             /\ ret'.fail = 0
             /\ Find(db[ret'.entity], "id", ret'.arg[1].ID) # {} ) =>
              (ret'.err = ErrResourceExists /\ db' = db) ]_vars

C18_Witness ==
    /\ ret.op = "Create"
    /\ ret.err = ErrResourceExists
    /\ \E d \in db[ret.entity] :
          d.id = ret.arg[1].ID /\ d.signature # ret.arg[1].Signature
    /\ Cardinality(db[ret.entity]) = 1

\* C19: Delete and DeleteBySignature remove exactly one record, one that
\* matches the key, and leave every other record as it is; when no record
\* matches they return ErrNotFound and change nothing.
C19_DeleteRemovesOne ==
    [][ (ret'.op \in {"Delete", "DeleteBySignature"} /\ ret'.fail = 0) =>
          LET e == ret'.entity
              matching == Find(db[e], IF ret'.op = "Delete" THEN "id" ELSE "signature",
                               ret'.key)
          IN  /\ matching = {} => (ret'.err = ErrNotFound /\ db' = db)
              /\ matching # {} =>
                    /\ ret'.err = Nil
                    /\ \E d \in matching : db'[e] = db[e] \ {d}
                    /\ Cardinality(db'[e]) = Cardinality(db[e]) - 1
              /\ OthersUnchanged(e) ]_vars

C19_Witness ==
    /\ ret.op = "DeleteBySignature"
    /\ ret.err = Nil
    /\ Cardinality(db[ret.entity]) = 1
    /\ \E d \in db[ret.entity] : d.signature # ret.key

\* C20: a successful Update or InvalidateAuthorizeCodeSession leaves the
\* create time of every record it finds stored as it was, whatever create time
\* the record handed to Update carries.
C20_CreateTimeKept ==
    [][ (ret'.op \in {"Update", "InvalidateAuthorizeCodeSession"} /\ ret'.err = Nil) =>
          \A d \in db[ret'.entity] : \A d2 \in db'[ret'.entity] :
              d2.id = d.id => d2.created_at = d.created_at ]_vars

(***************************************************************************)
(* Properties of racing Updates and Deletes (SpecUpdateRace)               *)
(***************************************************************************)
\* caller p has returned from the operation op on record id of collection e
Returned(p, op, e, id) ==
    /\ calls[p].pc = "done"
    /\ calls[p].op = op
    /\ calls[p].entity = e
    /\ calls[p].id = id

\* the step is the return of caller p from its Update
UpdateReturns(p) == calls[p].pc = "replace" /\ calls'[p].pc = "done"

\* C21: an Update that returns success leaves under its id the whole record
\* it carried; when two Updates of one id have both returned success the
\* stored record is the whole record of one of them; an Update that races
\* with a Delete returns success or ErrNotFound; and once a Delete of the id
\* has returned success no record with the id is stored, whatever Update
\* returns after it.
C21_DocumentLevelRaces ==
    [][ /\ \A p \in Procs :
              (UpdateReturns(p) /\ calls'[p].err = Nil) =>
                  Find(db'[calls[p].entity], "id", calls[p].id)
                      = {ToBSON(calls[p].request[1])}
        /\ \A e \in UpdateEntities : \A i \in IDs :
              /\ (\A p \in Procs : Returned(p, "Update", e, i)' /\ calls'[p].err = Nil) =>
                    \E p \in Procs :
                        Find(db'[e], "id", i) = {ToBSON(calls'[p].request[1])}
              /\ \A p \in Procs : \A q \in Procs \ {p} :
                    (Returned(p, "Delete", e, i)' /\ calls'[p].err = Nil) =>
                        /\ Find(db'[e], "id", i) = {}
                        /\ Returned(q, "Update", e, i)' =>
                              calls'[q].err \in {Nil, ErrNotFound} ]_vars

\* both callers have returned: an Update of the stored record that succeeded
\* and then the Delete of it
C21_Witness ==
    /\ \E p \in Procs : \E q \in Procs \ {p} :
          /\ Returned(p, "Update", EntityAuthorizationCodes, "i1")
          /\ calls[p].err = Nil
          /\ Returned(q, "Delete", EntityAuthorizationCodes, "i1")
          /\ calls[q].err = Nil
    /\ db[EntityAuthorizationCodes] = {}

\* both callers have returned from an Update of the stored record with
\* records that differ in signature and active
C21_WitnessTwoUpdates ==
    /\ \A p \in Procs :
          Returned(p, "Update", EntityAccessTokens, "i1") /\ calls[p].err = Nil
    /\ calls[1].request[1].Signature # calls[2].request[1].Signature
    /\ calls[1].request[1].Active # calls[2].request[1].Active
    /\ ToBSON(calls[2].request[1]) \in db[EntityAccessTokens]

(***************************************************************************)
(* Properties of the deny list shared by several instances (SpecJti); the  *)
(* persistent calls keep no state in the instance, so the calls of two     *)
(* instances are the calls of the specification in any order               *)
(***************************************************************************)
\* the jti was accepted with an expiry that has not passed
AcceptedLive(jti) == \E a \in accepted : a[1] = jti /\ a[2] > now

\* C22: while an accepted SetClientAssertionJWT for a jti has not expired, no
\* further SetClientAssertionJWT for the jti with an expiry in the future is
\* accepted, and ClientAssertionJWTValid for the jti returns ErrJTIKnown as
\* long as the accepted entry is stored.
C22_SharedDenylist ==
    [][ /\ ( /\ ret'.op = "ClientManager.SetClientAssertionJWT"
             /\ ret'.arg[1] > now
             /\ AcceptedLive(ret'.key) ) => ret'.err # Nil
        /\ ( /\ ret'.op = "ClientManager.ClientAssertionJWTValid"
             /\ ret'.fail = 0
             /\ \E a \in accepted :
                   /\ a[1] = ret'.key
                   /\ a[2] > now
                   /\ NewDeniedJTI(a[1], a[2]) \in Denied(denylist) ) =>
              ret'.err = ErrJTIKnown ]_vars

(***************************************************************************)
(* Properties of the goroutines of the in-memory replay check (SpecMemRace)*)
(***************************************************************************)
MemSetOp == "DeniedJtiManager.SetClientAssertionJWT"

\* C23: a goroutine that holds the mutex for writing excludes every other
\* holder, so ClientAssertionJWTValid never reads the map between the sweep
\* and the insert of a SetClientAssertionJWT; every SetClientAssertionJWT
\* returns success or ErrJTIKnown, and when all goroutines have called it
\* with one jti and expiries still in the future, exactly one has returned
\* success.
C23_MutexSerialises ==
    /\ \A p \in Procs : \A q \in Procs \ {p} :
          calls[p].pc \in {"sweep", "check", "insert"} =>
              calls[q].pc \notin {"sweep", "check", "insert", "read"}
    /\ \A p \in Procs :
          (calls[p].pc = "done" /\ calls[p].op = MemSetOp) =>
              calls[p].err \in {Nil, ErrJTIKnown}
    /\ \A j \in JTIs :
          (\A p \in Procs :
              Returned(p, MemSetOp, "memory", j) /\ calls[p].request[1] > now) =>
              Cardinality({ p \in Procs : calls[p].err = Nil }) = 1

\* the same for the goroutines of a manager whose map was made
C23_MutexSerialisesMadeMap ==
    BlacklistedJTIs.made => C23_MutexSerialises

(***************************************************************************)
(* Properties of the manager New builds (SpecMem)                          *)
(***************************************************************************)
\* C24: no call panics: every call of the in-memory replay check returns a
\* result, success or an error value, also the SetClientAssertionJWT on the
\* manager as New has built it.
C24_NoPanic ==
    ret.err # Panic

(***************************************************************************)
(* Properties of the calls over a failing engine (SpecEngine)              *)
(***************************************************************************)
\* the second engine call of the step is reached: the sweep of
\* SetClientAssertionJWT removed an entry, or the Get*Session found the
\* record and decoded its session
SecondCallReached ==
    \/ /\ ret'.op = "ClientManager.SetClientAssertionJWT"
       /\ DeleteBefore(denylist, now, now, FALSE).err = Nil
    \/ /\ ret'.entity \in Collections
       /\ ret'.op = GetSessionOp(ret'.entity)
       /\ \E d \in db[ret'.entity] :
             d.signature = ret'.key /\ Compatible(d.session_data, ret'.arg[1])

\* C25: a call whose engine call fails with a transport error returns that
\* error: every call of the store and of the persistent replay check whose
\* first engine call fails, IsJWTUsed and ClientAssertionJWTValid included,
\* and SetClientAssertionJWT and Get*Session when their second engine call
\* is reached and fails.
C25_EngineErrorsReturned ==
    [][ /\ ret'.fail = 1 => ret'.err = EngineError
        /\ (ret'.fail = 2 /\ SecondCallReached) => ret'.err = EngineError ]_vars

\* the same for every call but IsJWTUsed
C25_EngineErrorsReturnedButIsJWTUsed ==
    [][ ret'.op # "ClientManager.IsJWTUsed" =>
          /\ ret'.fail = 1 => ret'.err = EngineError
          /\ (ret'.fail = 2 /\ SecondCallReached) => ret'.err = EngineError ]_vars

(***************************************************************************)
(* Properties of DeleteBefore (SpecJti)                                    *)
(***************************************************************************)
\* the entries of the list with an expiry at or after the cutoff, in order
AtOrAfter(list, cutoff) == SelectSeq(list, LAMBDA d : ~(d.exp < cutoff))

\* C26: DeleteBefore(cutoff) leaves in the deny list exactly the entries whose
\* expiry is at or after the cutoff it was given, whatever the current time.
C26_DeleteBeforeCutoff ==
    [][ (ret'.op = "DeniedJTIs.DeleteBefore" /\ ret'.fail = 0) =>
          denylist' = AtOrAfter(denylist, ret'.arg[1]) ]_vars

\* the same with the current time in the place of the cutoff
C26_DeleteBeforeNow ==
    [][ (ret'.op = "DeniedJTIs.DeleteBefore" /\ ret'.fail = 0) =>
          denylist' = AtOrAfter(denylist, now) ]_vars

(***************************************************************************)
(* Properties of InvalidateAuthorizeCodeSession (SpecCode)                 *)
(***************************************************************************)
\* C27: InvalidateAuthorizeCodeSession(code) returns ErrNotFound and changes
\* no record when no record of the code is stored; on a stored code it
\* returns success, the record of the code is stored with active=false and
\* the current update time and is otherwise as it was, and every other
\* record is as it was.
C27_InvalidateOutcomes ==
    [][ (ret'.op = "InvalidateAuthorizeCodeSession" /\ ret'.fail = 0) =>
          LET stored == Find(Codes, "signature", ret'.key)
          IN  /\ stored = {} => (ret'.err = ErrNotFound /\ db' = db)
              /\ stored # {} =>
                    /\ ret'.err = Nil
                    /\ db'[EntityAuthorizationCodes] =
                          (Codes \ stored) \cup
                          { [d EXCEPT !.active = FALSE, !.updated_at = now] :
                              d \in stored }
                    /\ OthersUnchanged(EntityAuthorizationCodes) ]_vars

C27_Witness ==
    /\ ret.op = "InvalidateAuthorizeCodeSession"
    /\ ret.err = Nil
    /\ Cardinality(Codes) = 2
    /\ \E d \in Codes : d.signature = ret.key /\ ~d.active /\ d.updated_at = now
    /\ \E d \in Codes : d.signature # ret.key /\ d.active

(***************************************************************************)
(* Properties of the authentication of principals (SpecAuth)               *)
(***************************************************************************)
UserAuthOps == {"UserManager.Authenticate", "UserManager.AuthenticateByID",
                "UserManager.AuthenticateByUsername"}

\* the user documents the authentication call of the step looks at
UsersAsked ==
    Find(db[EntityUsers],
         IF ret'.op = "UserManager.AuthenticateByID" THEN "id" ELSE "username",
         ret'.key)

\* the client documents the authentication call of the step looks at
ClientsAsked == Find(db[EntityClients], "id", ret'.key)

\* C28: Authenticate for a stored client or user that is disabled returns
\* ErrAccessDenied and no record, whatever the secret and also when the
\* client is public.
C28_DisabledDenied ==
    [][ /\ ( /\ ret'.op = "ClientManager.Authenticate" /\ ret'.fail = 0
             /\ ClientsAsked # {}
             /\ \A d \in ClientsAsked : d.disabled ) =>
              (ret'.err = ErrAccessDenied /\ ret'.val = <<>>)
        /\ ( /\ ret'.op \in UserAuthOps /\ ret'.fail = 0
             /\ \E d \in UsersAsked : d.disabled ) =>
              (ret'.err = ErrAccessDenied /\ ret'.val = <<>>) ]_vars

\* the same for the users and for the clients that are not public
C28_DisabledDeniedUnlessPublic ==
    [][ /\ ( /\ ret'.op = "ClientManager.Authenticate" /\ ret'.fail = 0
             /\ ClientsAsked # {}
             /\ \A d \in ClientsAsked : d.disabled /\ ~d.public ) =>
              (ret'.err = ErrAccessDenied /\ ret'.val = <<>>)
        /\ ( /\ ret'.op \in UserAuthOps /\ ret'.fail = 0
             /\ \E d \in UsersAsked : d.disabled ) =>
              (ret'.err = ErrAccessDenied /\ ret'.val = <<>>) ]_vars

(***************************************************************************)
(* Properties of the user store (SpecUsers)                                *)
(***************************************************************************)
Users == db[EntityUsers]

\* the step is a call of op on the user store whose engine calls went through
UserCall(op) ==
    /\ ret'.op = op
    /\ ret'.fail = 0

\* C29: UserManager.Create returns ErrResourceExists and stores nothing when
\* a user with the same id is stored, and also when a user with another id
\* and the same username is stored; no state holds two users with the same
\* id or the same username.
C29_UserUniqueness ==
    [][ /\ ( /\ UserCall("UserManager.Create")
             /\ \/ Find(Users, "id", ret'.key) # {}
                \/ Find(Users, "username", ret'.arg[1].Username) # {} ) =>
              (ret'.err = ErrResourceExists /\ db' = db)
        /\ \A d1, d2 \in db'[EntityUsers] :
              (d1.id = d2.id \/ d1.username = d2.username) => d1 = d2 ]_vars

\* a Create was refused for the username of a user stored under another id
C29_Witness ==
    /\ ret.op = "UserManager.Create"
    /\ ret.fail = 0
    /\ ret.err = ErrResourceExists
    /\ ret.key # ""
    /\ Find(Users, "id", ret.key) = {}
    /\ Find(Users, "username", ret.arg[1].Username) # {}

\* C30: Update of an id that is not stored returns ErrNotFound and creates
\* no user; Update that sets the username of another stored user returns
\* ErrResourceExists and changes neither user; Delete of a stored user
\* succeeds and a Get of the id then returns ErrNotFound; Delete of an id
\* that is not stored returns ErrNotFound.
C30_UpdateDeleteOutcomes ==
    [][ /\ ( /\ UserCall("UserManager.Update")
             /\ Find(Users, "id", ret'.key) = {} ) =>
              (ret'.err = ErrNotFound /\ db' = db)
        /\ ( /\ UserCall("UserManager.Update")
             /\ Find(Users, "id", ret'.key) # {}
             /\ \E d \in Users : /\ d.id # ret'.key
                                  /\ d.username = ret'.arg[1].Username ) =>
              (ret'.err = ErrResourceExists /\ db' = db)
        /\ ( /\ UserCall("UserManager.Delete")
             /\ Find(Users, "id", ret'.key) # {} ) =>
              /\ ret'.err = Nil
              /\ \A pick \in Picks(db'[EntityUsers], "id", ret'.key) :
                    UserGet(pick, 0).err = ErrNotFound
        /\ ( /\ UserCall("UserManager.Delete")
             /\ Find(Users, "id", ret'.key) = {} ) =>
              (ret'.err = ErrNotFound /\ db' = db) ]_vars

\* an Update was refused for the username of the other stored user
C30_Witness ==
    /\ ret.op = "UserManager.Update"
    /\ ret.fail = 0
    /\ ret.err = ErrResourceExists
    /\ Find(Users, "id", ret.key) # {}
    /\ \E d \in Users : d.id # ret.key /\ d.username = ret.arg[1].Username

\* the stored document of the user the call was about
UserAfter(id) == Find(db'[EntityUsers], "id", id)

\* C31: Create stores the hash of the supplied password, never the plain
\* value; Update with an empty password or with the stored hash keeps the
\* stored hash; Update with any other password stores the hash of the new
\* value, and the new password compares equal against it; Create and Update
\* change the password of no other user.
C31_PasswordHashed ==
    [][ /\ ( /\ UserCall("UserManager.Create")
             /\ ret'.err = Nil ) =>
              /\ UserAfter(ret'.val[1].ID) # {}
              /\ \A d \in UserAfter(ret'.val[1].ID) :
                    /\ d.password = Hash(ret'.arg[1].Password)
                    /\ d.password # ret'.arg[1].Password
        /\ ( /\ UserCall("UserManager.Update")
             /\ ret'.err = Nil ) =>
              /\ UserAfter(ret'.key) # {}
              /\ \A old \in Find(Users, "id", ret'.key) :
                 \A d \in UserAfter(ret'.key) :
                    IF ret'.arg[1].Password \in {"", old.password}
                    THEN d.password = old.password
                    ELSE /\ d.password = Hash(ret'.arg[1].Password)
                         /\ Compare(d.password, ret'.arg[1].Password) = Nil
                         /\ ~d.disabled =>
                              AuthenticateByID(<<d>>, ret'.arg[1].Password, 0).err = Nil
        /\ ( ret'.op \in {"UserManager.Create", "UserManager.Update"} ) =>
              \A old \in Users : \A d \in db'[EntityUsers] :
                  (d.id = old.id /\ d.password # old.password) =>
                      /\ ret'.op = "UserManager.Update"
                      /\ ret'.err = Nil
                      /\ d.id = ret'.key
                      /\ ret'.arg[1].Password \notin {"", old.password} ]_vars

\* an Update with another password has replaced the stored hash of a user
\* who was created with the first password
C31_Witness ==
    /\ ret.op = "UserManager.Update"
    /\ ret.fail = 0
    /\ ret.err = Nil
    /\ ret.arg[1].Password = "pw2"
    /\ \E d \in Find(Users, "id", ret.key) : d.password = Hash("pw2")

\* the id under which a migrated client is stored
MigratedID == IF ret'.arg[1].ID = "" THEN {d.id : d \in db'[EntityClients]}
              ELSE {ret'.arg[1].ID}

\* C32: ClientManager.Migrate creates the record of a client id that is not
\* stored and overwrites the record of one that is, returns the record
\* without error in both cases, and leaves exactly one record with that id.
C32_MigrateUpserts ==
    [][ ( /\ ret'.op = "ClientManager.Migrate"
          /\ ret'.fail = 0 ) =>
            /\ ret'.err = Nil
            /\ ret'.val # <<>>
            /\ ret'.val[1].ID \in MigratedID
            /\ Find(db'[EntityClients], "id", ret'.val[1].ID)
                  = {ClientToBSON(ret'.val[1])} ]_vars

\* the same for a client id that is stored once: the record is overwritten
\* and returned
C32_MigrateOverwrites ==
    [][ ( /\ ret'.op = "ClientManager.Migrate"
          /\ ret'.fail = 0
          /\ ret'.arg[1].ID # ""
          /\ Cardinality(Find(db[EntityClients], "id", ret'.arg[1].ID)) = 1 ) =>
            /\ ret'.err = Nil
            /\ ret'.val # <<>>
            /\ Find(db'[EntityClients], "id", ret'.arg[1].ID)
                  = {ClientToBSON(ret'.val[1])} ]_vars

\* Migrate of a client id that is not stored inserts the record and returns
\* ErrNotFound
C32_MigrateInsertsNotFound ==
    [][ ( /\ ret'.op = "ClientManager.Migrate"
          /\ ret'.fail = 0
          /\ ret'.arg[1].ID # ""
          /\ Find(db[EntityClients], "id", ret'.arg[1].ID) = {} ) =>
            /\ ret'.err = ErrNotFound
            /\ Cardinality(Find(db'[EntityClients], "id", ret'.arg[1].ID)) = 1 ]_vars

(***************************************************************************)
(* Properties of the in-memory replay check (SpecMem)                      *)
(***************************************************************************)
MemValidOp == "DeniedJtiManager.ClientAssertionJWTValid"

\* the map holds the jti with an expiry later than the time t
Unexpired(m, jti, t) == \E en \in m.entries : en[1] = jti /\ en[2] > t

\* C33: the in-memory ClientAssertionJWTValid returns ErrJTIKnown exactly
\* when the map holds the jti with an expiry later than the current time and
\* nil otherwise, and never changes the map; the in-memory
\* SetClientAssertionJWT returns ErrJTIKnown exactly when the jti is present
\* and unexpired, and otherwise inserts the jti with exp and returns nil.
C33_MemContract ==
    [][ /\ ret'.op = MemValidOp =>
              /\ ret'.err = IF Unexpired(BlacklistedJTIs, ret'.key, now)
                            THEN ErrJTIKnown ELSE Nil
              /\ BlacklistedJTIs' = BlacklistedJTIs
        /\ ret'.op = MemSetOp =>
              IF Unexpired(BlacklistedJTIs, ret'.key, now)
              THEN ret'.err = ErrJTIKnown
              ELSE /\ ret'.err = Nil
                   /\ <<ret'.key, ret'.arg[1]>> \in BlacklistedJTIs'.entries ]_vars

\* the same where the map was made and no entry of the jti expires at the
\* very time of the call
C33_MemContractOffBoundary ==
    [][ /\ ret'.op = MemValidOp =>
              /\ ret'.err = IF Unexpired(BlacklistedJTIs, ret'.key, now)
                            THEN ErrJTIKnown ELSE Nil
              /\ BlacklistedJTIs' = BlacklistedJTIs
        /\ ( /\ ret'.op = MemSetOp
             /\ BlacklistedJTIs.made
             /\ <<ret'.key, now>> \notin BlacklistedJTIs.entries ) =>
              IF Unexpired(BlacklistedJTIs, ret'.key, now)
              THEN ret'.err = ErrJTIKnown
              ELSE /\ ret'.err = Nil
                   /\ <<ret'.key, ret'.arg[1]>> \in BlacklistedJTIs'.entries ]_vars

\* C34: at every instant, the instant of a stored entry's expiry included,
\* the in-memory SetClientAssertionJWT(jti, _) fails with ErrJTIKnown if and
\* only if ClientAssertionJWTValid(jti) at that instant fails with ErrJTIKnown.
C34_ExpiryAgrees ==
    \A j \in JTIs, x \in Expiries :
        (MemSetClientAssertionJWT(BlacklistedJTIs, j, x, now).err = ErrJTIKnown)
            <=> (MemClientAssertionJWTValid(BlacklistedJTIs, j, now) = ErrJTIKnown)

\* the two calls agree at every instant other than the expiry of an entry of
\* the jti
C34_ExpiryAgreesOffBoundary ==
    \A j \in JTIs, x \in Expiries :
        <<j, now>> \notin BlacklistedJTIs.entries =>
            ( (MemSetClientAssertionJWT(BlacklistedJTIs, j, x, now).err = ErrJTIKnown)
                <=> (MemClientAssertionJWTValid(BlacklistedJTIs, j, now) = ErrJTIKnown) )

\* the persistent layer: SetClientAssertionJWT(jti, _) fails with ErrJTIKnown
\* if and only if ClientAssertionJWTValid(jti) can fail with ErrJTIKnown
C34_PersistentExpiryAgrees ==
    \A j \in JTIs, x \in Expiries :
        (SetClientAssertionJWT(denylist, jtiIndex, j, x, now, 0).err = ErrJTIKnown)
            <=> (\E pick \in DeniedPicks(denylist, j) :
                    ClientAssertionJWTValid(denylist, pick, now, 0) = ErrJTIKnown)

\* the in-memory SetClientAssertionJWT returned
MemSetReturned ==
    /\ ret'.op = MemSetOp
    /\ ret'.err \in {Nil, ErrJTIKnown}

\* entries leave the map only in the sweep of a SetClientAssertionJWT, and
\* only when their expiry is before the time of the call
OnlySweepRemoves ==
    \A en \in BlacklistedJTIs.entries \ BlacklistedJTIs'.entries :
        ret'.op = MemSetOp /\ en[2] < now

\* C35: after every in-memory SetClientAssertionJWT call returns, the map
\* holds no entry whose expiry is before the time of the call; entries are
\* removed only by such a sweep, so an unexpired entry is never dropped.
C35_SweepOnWrite ==
    [][ /\ MemSetReturned =>
              \A en \in BlacklistedJTIs'.entries : ~(en[2] < now)
        /\ OnlySweepRemoves ]_vars

\* C35 amended: after the call returns, the only entry the map may hold with
\* an expiry before the time of the call is the one the call has just
\* inserted; entries are removed only by the sweep and only when expired.
C35_SweepBeforeInsert ==
    [][ /\ MemSetReturned =>
              \A en \in BlacklistedJTIs'.entries :
                  en[2] < now =>
                      /\ ret'.err = Nil
                      /\ en = <<ret'.key, ret'.arg[1]>>
        /\ OnlySweepRemoves ]_vars

\* a SetClientAssertionJWT has returned after inserting an entry whose expiry
\* is before the time of the call, with an unexpired entry of another jti kept
C35_Witness ==
    /\ ret.op = MemSetOp
    /\ ret.err = Nil
    /\ ret.arg[1] < now
    /\ <<ret.key, ret.arg[1]>> \in BlacklistedJTIs.entries
    /\ \E en \in BlacklistedJTIs.entries : en[1] # ret.key /\ en[2] > now

(***************************************************************************)
(* Properties of List: the fields its filters select on (SpecList)         *)
(***************************************************************************)
\* the scope list satisfies the intersection and the union filter given for it
ScopesSatisfy(scopes, intersection, union) ==
    /\ Range(intersection) \subseteq Range(scopes)
    /\ union # <<>> => Range(union) \cap Range(scopes) # {}

\* the filter names at most one mode for each scope field and no client or
\* user
OneModePerField(f) ==
    /\ f.ClientID = ""
    /\ f.UserID = ""
    /\ f.ScopesIntersection = <<>> \/ f.ScopesUnion = <<>>
    /\ f.GrantedScopesIntersection = <<>> \/ f.GrantedScopesUnion = <<>>

GrantedFiltered(f) ==
    f.GrantedScopesIntersection # <<>> \/ f.GrantedScopesUnion # <<>>

\* C36: a List with a filter on the requested scopes and a filter on the
\* granted scopes returns exactly the records that satisfy both, and a
\* granted-scope filter matches on the granted scopes of the record, not on
\* its requested scopes.
C36_ScopeFieldsCombine ==
    ( /\ ret.op = "List" /\ ret.fail = 0
      /\ OneModePerField(ret.arg[1])
      /\ GrantedFiltered(ret.arg[1]) ) =>
        LET f == ret.arg[1]
        IN  /\ ret.err = Nil
            /\ ret.val[1] =
                  { FromBSON(d) : d \in
                      { x \in db[ret.entity] :
                          /\ ScopesSatisfy(x.scopes, f.ScopesIntersection,
                                           f.ScopesUnion)
                          /\ ScopesSatisfy(x.granted_scopes,
                                           f.GrantedScopesIntersection,
                                           f.GrantedScopesUnion) } }

\* what List does with a granted-scope filter: it matches the filter that
\* was assigned last on the requested scopes of the record
C36_GrantedFilterOnRequestedScopes ==
    ( /\ ret.op = "List" /\ ret.fail = 0
      /\ OneModePerField(ret.arg[1])
      /\ GrantedFiltered(ret.arg[1]) ) =>
        LET f == ret.arg[1]
        IN  /\ ret.err = Nil
            /\ ret.val[1] =
                  { FromBSON(d) : d \in
                      { x \in db[ret.entity] :
                          ScopesSatisfy(x.scopes, f.GrantedScopesIntersection,
                                        f.GrantedScopesUnion) } }

\* the filter names a client or a user and no scope
PrincipalOnly(f) ==
    /\ f.ClientID # "" \/ f.UserID # ""
    /\ f.ScopesIntersection = <<>> /\ f.ScopesUnion = <<>>
    /\ f.GrantedScopesIntersection = <<>> /\ f.GrantedScopesUnion = <<>>

\* C37: List with a client id and/or a user id filter returns exactly the
\* records of the collection whose stored client id and user id equal the
\* given values, an empty value placing no restriction.
C37_PrincipalFilters ==
    ( /\ ret.op = "List" /\ ret.fail = 0
      /\ PrincipalOnly(ret.arg[1]) ) =>
        LET f == ret.arg[1]
        IN  /\ ret.err = Nil
            /\ ret.val[1] =
                  { FromBSON(d) : d \in
                      { x \in db[ret.entity] :
                          /\ f.ClientID # "" => x.client_id = f.ClientID
                          /\ f.UserID # "" => x.user_id = f.UserID } }

\* what List does with a client id or a user id filter: it finds nothing
C37_PrincipalFiltersFindNothing ==
    ( /\ ret.op = "List" /\ ret.fail = 0
      /\ ret.arg[1].ClientID # "" \/ ret.arg[1].UserID # "" ) =>
        ret.val = <<{}>>

(***************************************************************************)
(* Properties of deletion by signature (SpecDelete)                        *)
(***************************************************************************)
DeleteBySignatureOps ==
    {"DeleteBySignature"} \cup { DeleteSessionOp(e) : e \in DeleteSessionEntities }

\* the documents of the collection the call was about that carry its signature
Signed == Find(db[ret'.entity], "signature", ret'.key)
SignedAfter == Find(db'[ret'.entity], "signature", ret'.key)

\* after the step, a signature that no document of the collection carries
\* reads as ErrNotFound through GetBySignature and through the Get*Session of
\* the collection, whatever clients are stored
UnsignedNotFound ==
    ret'.entity \in Collections =>
        \A c \in Signatures :
            Find(db'[ret'.entity], "signature", c) = {} =>
                \A pick \in Picks(db'[ret'.entity], "signature", c) :
                    /\ GetBySignature(pick, 0).err = ErrNotFound
                    /\ \A cs \in SUBSET ClientIDs :
                          GetSession(ret'.entity, pick, TemplateA, cs, 0).err
                              = ErrNotFound

InvalidateReturns(p) ==
    /\ calls[p].pc = "invalidate"
    /\ calls'[p].pc = "done"
    /\ calls'[p].err = Nil

\* the stored authorization code with the id of the record caller p read
CodeOf(p) == Find(db[EntityAuthorizationCodes], "id", calls[p].id)

\* C39: InvalidateAuthorizeCodeSession changes only active and updateTime:
\* under any interleaving with Updates of the record, every other field of
\* the stored record after the invalidation has the value it had before it,
\* the one most recently written by a completed Update.
C39_InvalidateKeepsFields ==
    [][ \A p \in Procs :
          InvalidateReturns(p) =>
              \E old \in CodeOf(p) :
                  db'[EntityAuthorizationCodes] =
                      (db[EntityAuthorizationCodes] \ {old})
                          \cup {[old EXCEPT !.active = FALSE, !.updated_at = now]} ]_vars

\* what the invalidation writes: the record it read, with active cleared
C39_InvalidateWritesWhatItRead ==
    [][ \A p \in Procs :
          InvalidateReturns(p) =>
              \E old \in CodeOf(p) :
                  db'[EntityAuthorizationCodes] =
                      (db[EntityAuthorizationCodes] \ {old})
                          \cup {ToBSON([calls[p].request[1] EXCEPT
                                           !.UpdateTime = now])} ]_vars

(***************************************************************************)
(* Properties of the five collections side by side (SpecIsolation)         *)
(***************************************************************************)
\* the collection an operation works on, from its name
OwnCollection(op, entity) ==
    CASE op \in {"RevokeRefreshToken", "RevokeRefreshTokenMaybeGracePeriod",
                 "CreateRefreshTokenSession", "DeleteRefreshTokenSession"} ->
            EntityRefreshTokens
      [] op \in {"RevokeAccessToken", "CreateAccessTokenSession",
                 "DeleteAccessTokenSession"} -> EntityAccessTokens
      [] op \in {"InvalidateAuthorizeCodeSession", "CreateAuthorizeCodeSession"} ->
            EntityAuthorizationCodes
      [] op \in {"CreatePKCERequestSession", "DeletePKCERequestSession"} ->
            EntityPKCESessions
      [] op \in {"CreateOpenIDConnectSession", "DeleteOpenIDConnectSession"} ->
            EntityOpenIDSessions
      [] OTHER -> entity

\* collection e refuses no Create of the record: it holds no record with the
\* id, and none with the signature where the signature index is unique
Admits(e, id, signature) ==
    /\ Find(db[e], "id", id) = {}
    /\ e # EntityAccessTokens => Find(db[e], "signature", signature) = {}

\* C40: every Create, Update, Delete, DeleteBySignature, Revoke* and
\* Invalidate operation changes records of its own collection only, and
\* uniqueness is per collection: a record with signature s or id i is created
\* in one collection whatever records with that signature or id the other
\* collections hold.
C40_CollectionsIsolated ==
    [][ /\ \A o \in Collections \ {OwnCollection(ret'.op, ret'.entity)} :
              db'[o] = db[o]
        /\ ret'.entity = OwnCollection(ret'.op, ret'.entity)
        /\ ( /\ ret'.op = "Create" /\ ret'.fail = 0
             /\ Admits(ret'.entity, ret'.arg[1].ID, ret'.key) ) =>
              /\ ret'.err = Nil
              /\ db'[ret'.entity] = db[ret'.entity] \cup {ToBSON(ret'.val[1])}
        /\ ( /\ ret'.op \in { CreateSessionOp(e) : e \in Collections }
             /\ ret'.fail = 0
             /\ Admits(ret'.entity, ret'.arg[1].ID, ret'.key) ) =>
              /\ ret'.err = Nil
              /\ Find(db'[ret'.entity], "signature", ret'.key) # {} ]_vars

\* the authorization code, its PKCE session and its OIDC session are stored
\* under one signature and one id, the last of them just created
C40_Witness ==
    /\ ret.op \in {"Create"} \cup { CreateSessionOp(e) : e \in Collections }
    /\ ret.err = Nil
    /\ \E e \in Collections \ {ret.entity} :
          \E d \in db[e] : \E n \in db[ret.entity] :
              /\ d.signature = ret.key /\ n.signature = ret.key
              /\ d.id = n.id

====
